---------------------------- MODULE Spec2Model ----------------------------
(***************************************************************************)
(* A model of pingco.py: the external proxy-process lifecycle             *)
(* (V2RayProxyManager), the application-level probe (RealPing,            *)
(* ConfigProcessor.real_ping_configs), the connection retry coordinator   *)
(* (ConfigConnectionManager), the notification phase of main with         *)
(* TelegramBot._make_request, and the functions of the ingestion          *)
(* pipeline (smart_decode, fetch_multiple, remove_duplicates,             *)
(* sort_by_latency).                                                      *)
(*                                                                         *)
(* The main thread of the Python program is modelled as a stack machine:  *)
(* `stack' holds one label per active call (the label is the statement    *)
(* the frame executes next), `exc' is the exception in flight.            *)
(* Asynchronous exceptions (the SIGALRM handler of test_config raising    *)
(* TimeoutError, Ctrl+C raising KeyboardInterrupt) are raised at the      *)
(* label on top of the stack, i.e. before that statement runs or while    *)
(* its blocking call waits.  The worker threads of fetch_multiple's       *)
(* pool are modelled by the state of their tasks.                         *)
(***************************************************************************)
EXTENDS Integers, Sequences, FiniteSets, TLC

(***************************************************************************)
(* Bounds of the model.                                                    *)
(***************************************************************************)
MaxOps == 3          \* calls made by the direct user of one proxy handle
MaxList == 2         \* longest candidate list
MaxPasses == 2       \* passes of wait_for_connection that are explored
MaxInterrupts == 1   \* Ctrl+C presses in one run
MaxRetries == 1      \* times the operator answers the failure prompt with '1'
MaxWraps == 6        \* base64 layers around a fetched body
MaxLines == 3        \* longest list of lines given to remove_duplicates
MaxResults == 3      \* longest list of probe results given to sort_by_latency
MaxUrls == 2         \* longest list of URLs given to fetch_multiple
MaxWorkers == 2      \* largest thread pool of a ConfigFetcher or ConfigProcessor
MaxProbes == 2       \* longest list of configs given to ping_configs
TopCount == 1        \* configs kept for the second stage (50 at line 1128), scaled to MaxProbes

(***************************************************************************)
(* Program constants.                                                      *)
(***************************************************************************)
None == 0            \* Python's None for process and config_file (pids and files are >= 1)
NoLatency == -1      \* Python's None for a latency (latencies are >= 0)
SocksPort == 10808   \* V2RayProxyManager.__init__ default socks_port
NoAverage == -1      \* a ping report without the line that gives the average (line 128)

(***************************************************************************)
(* Connection strings.  A config is the scheme prefix, the characters     *)
(* after it (VLESS) and what the base64 payload decodes to (VMESS): b64   *)
(* says that b64decode and the UTF-8 decoding succeed, json what          *)
(* json.loads makes of the text, port and aid the values of these keys,   *)
(* add whether the text holds "add": "..." with a non-empty value, net    *)
(* and tls the values of these keys.                                      *)
(* Characters: "u" and "h" are ordinary characters, "1" and "4" digits.   *)
(***************************************************************************)
Digits == {"1", "4"}

NoPayload ==
    [b64 |-> FALSE, json |-> "invalid", port |-> "absent", aid |-> "absent", add |-> "absent",
     net |-> "absent", tls |-> "absent"]

Payload(b64, json, port, aid, add) ==
    [b64 |-> b64, json |-> json, port |-> port, aid |-> aid, add |-> add,
     net |-> "absent", tls |-> "absent"]

Vless(body) == [scheme |-> "vless://", body |-> body, payload |-> NoPayload]

Vmess(p) == [scheme |-> "vmess://", body |-> <<>>, payload |-> p]

CfgGood == Vless(<<"u", "@", "h", ":", "4", "4">>)
CfgParams == Vless(<<"u", "@", "h", ":", "1", "?", "t", "=", "w", "#", "r">>)
CfgNoAt == Vless(<<"u", "h", ":", "4">>)
CfgNoPort == Vless(<<"u", "@", "h", ":", "u">>)
CfgNoHost == Vless(<<"u", "@", ":", "4">>)
CfgOther == [scheme |-> "ss://", body |-> <<"u", "@", "h", ":", "4">>, payload |-> NoPayload]
CfgVmess == Vmess(Payload(TRUE, "object", "digits", "absent", "text"))
CfgVmessBadB64 == Vmess(NoPayload)
CfgVmessNotJson == Vmess(Payload(TRUE, "invalid", "absent", "absent", "absent"))
CfgVmessNoPort == Vmess(Payload(TRUE, "object", "absent", "absent", "text"))
CfgVmessTextPort == Vmess(Payload(TRUE, "object", "text", "int", "text"))

SampleConfigs ==
    {CfgGood, CfgParams, CfgNoAt, CfgNoPort, CfgNoHost, CfgOther,
     CfgVmess, CfgVmessBadB64, CfgVmessNotJson, CfgVmessNoPort, CfgVmessTextPort}

\* Index of the first element of s at or after position i that is in set S, 0 if none.
RECURSIVE FirstIn(_, _, _)
FirstIn(s, i, S) ==
    IF i > Len(s) THEN 0
    ELSE IF s[i] \in S THEN i
    ELSE FirstIn(s, i + 1, S)

\* Number of consecutive digits of s starting at position i.
RECURSIVE DigitRun(_, _)
DigitRun(s, i) ==
    IF i > Len(s) \/ s[i] \notin Digits THEN 0
    ELSE 1 + DigitRun(s, i + 1)

\* re.match(r'vless://([^@]+)@([^:]+):(\d+)\??(.*)#?(.*)', config)
VlessMatch(body) ==
    LET at == FirstIn(body, 1, {"@"})
        colon == IF at = 0 THEN 0 ELSE FirstIn(body, at + 1, {":"})
        nd == IF colon = 0 THEN 0 ELSE DigitRun(body, colon + 1)
        ok == at > 1 /\ colon > at + 1 /\ nd > 0
        rest == IF ok THEN SubSeq(body, colon + nd + 1, Len(body)) ELSE <<>>
    IN  [ok |-> ok,
         uuid |-> IF ok THEN SubSeq(body, 1, at - 1) ELSE <<>>,
         address |-> IF ok THEN SubSeq(body, at + 1, colon - 1) ELSE <<>>,
         port |-> IF ok THEN SubSeq(body, colon + 1, colon + nd) ELSE <<>>,
         params |-> IF rest # <<>> /\ rest[1] = "?" THEN Tail(rest) ELSE rest]

\* _parse_vless_config: None when the pattern does not match.
ParseVlessOk(c) == VlessMatch(c.body).ok

\* _parse_vmess_config: None when b64decode, json.loads, .get or int() raises.
ParseVmessOk(c) ==
    /\ c.payload.b64
    /\ c.payload.json = "object"
    /\ c.payload.port \in {"int", "digits"}
    /\ c.payload.aid \in {"absent", "int", "digits"}

\* start_proxy, lines 620-624: the outbound is parsed by scheme.
HasOutbound(c) ==
    IF c.scheme = "vless://" THEN ParseVlessOk(c)
    ELSE IF c.scheme = "vmess://" THEN ParseVmessOk(c)
    ELSE FALSE


(***************************************************************************)
(* State.                                                                  *)
(***************************************************************************)
VARIABLES
    scenario,        \* which entry point of the program this run exercises
    configs,         \* the candidate / ranked list: records [cfg, lat]
    win32,           \* sys.platform == 'win32'
    HAS_SOCKS,       \* PySocks could be imported (line 36-40)
    xray_path,       \* V2RayProxyManager.xray_path: "xray" or "None"
    maxAttempts,     \* argument of try_connect_with_configs
    foreign,         \* operating system: another program listens on the relay port
    stack,           \* call stack: the label each frame executes next
    exc,             \* exception in flight: "none", "OSError", "Timeout", "KbdInt"
    hung,            \* the blocking call at the top label never completes on its own
    process,         \* V2RayProxyManager.process (pid or None)
    config_file,     \* V2RayProxyManager.config_file (file or None)
    spConfig,        \* start_proxy: its argument
    tmpf,            \* start_proxy: f, the NamedTemporaryFile
    spawned,         \* start_proxy: the child Popen created, before it is stored
    spRet,           \* value returned by start_proxy
    tpRet,           \* value returned by _test_proxy
    alive,           \* operating system: proxy processes that are running
    files,           \* operating system: temporary files that exist
    nextPid,         \* operating system: next process id
    nextFile,        \* operating system: next temporary file name
    alarmArmed,      \* a SIGALRM is pending (signal.alarm)
    socketFactory,   \* socket.socket: "orig" or "socks"
    original_socket, \* test_config: original_socket ("None" or a factory)
    elapsed,         \* test_config: elapsed
    tcConfig,        \* test_config: its argument
    tcRet,           \* value returned by test_config
    rpI,             \* real_ping_configs: index of the candidate being tested
    results,         \* real_ping_configs: results
    tcwN,            \* try_connect_with_configs: len(self.configs[:attempts])
    tcwI,            \* try_connect_with_configs: index of the entry being tried
    connRet,         \* value returned by try_connect_with_configs / wait_for_connection
    connected_config,\* ConfigConnectionManager.connected_config
    passes,          \* wait_for_connection: attempt
    interrupts,      \* Ctrl+C presses so far
    lastSpawned,     \* history: process spawned by the latest start_proxy call
    lastCreated,     \* history: file created by the latest start_proxy call
    hist,            \* history: calls completed by the direct user of a handle
    snap,            \* history: handle fields when the previous stop_proxy returned
    startLog,        \* history: <<index, outcome>> of each start_proxy of a pass
    alarmFired,      \* history: the deadline of the current test_config call fired
    callSnap,        \* history: handle fields and id counters when start_proxy was entered
    mode,            \* main: how the send is triggered: "saved", "custom" or "cli"
    proxy,           \* main: proxy: "none", "system" (detected) or "relay" (conn_result['proxy'])
    botProxy,        \* TelegramBot.proxy of the bot that sends
    connection_mgr,  \* main: connection_mgr is not None
    mrRet,           \* value returned by _make_request / send_top_configs
    retries,         \* main: times the operator chose to retry
    completed,       \* main: the line "All operations completed successfully!" was printed
    sendFailed,      \* history: the latest send returned False
    unprompted,      \* history: a send failed and no prompt was shown since
    aborted,         \* history: the operator answered the prompt with something other than '1'
    mrEntryFactory,  \* history: socket.socket when _make_request was entered
    content,         \* smart_decode: its argument, the raw bytes
    text,            \* smart_decode: text
    iteration,       \* smart_decode: iteration
    decodes,         \* history: calls of base64.b64decode made by this smart_decode call
    sdRet,           \* value returned by smart_decode
    sdRun,           \* history: 1 for the first smart_decode call of the run, 2 for the second
    sdFirst,         \* history: value returned by the first smart_decode call
    sdInput,         \* history: the argument of the first smart_decode call
    rdConfigs,       \* remove_duplicates: its argument
    rdI,             \* remove_duplicates: elements of configs the loop has taken
    seen,            \* remove_duplicates: seen
    unique,          \* remove_duplicates: unique
    rdRet,           \* value returned by remove_duplicates
    srResults,       \* sort_by_latency: its argument, tuples (config, latency)
    srI,             \* sorted: elements of the input already inserted
    srOrder,         \* sorted: the list being built, as positions of the input
    srRet,           \* value returned by sort_by_latency
    fmUrls,          \* fetch_multiple: what each URL of its argument answers
    max_workers,     \* ConfigFetcher.max_workers
    fmTask,          \* thread pool: state of the task of each URL
    fmResult,        \* thread pool: result of each completed future
    fmYielded,       \* as_completed: futures already yielded
    all_configs,     \* fetch_multiple: all_configs
    fmOrder,         \* history: the order in which as_completed yielded the futures
    fmRet,           \* value returned by fetch_multiple
    pcConfig,        \* run_single_ping: its argument
    ip,              \* ping_config: ip
    report,          \* what the ping command reports for the host of pcConfig
    latency,         \* run_single_ping: latency
    printed,         \* run_single_ping: the line printed: "ping" or "timeout"
    pgConfigs,       \* ping_configs: its argument
    pgReport,        \* what the ping command reports for the host of each config
    pgTask,          \* thread pool: state of the task of each config
    pgFuture,        \* thread pool: latency in the result of each completed future
    pgYielded,       \* as_completed: futures already yielded
    icmp_results,    \* ping_configs: results; _process_configs: icmp_results
    top_configs,     \* _process_configs: top_configs
    prRet,           \* _process_configs: the list it returns
    realping_file,   \* the results written to <name>_realping.txt, <<>> while not written
    poConfig,        \* the argument of _parse_vless_config / _parse_vmess_config
    outbound         \* start_proxy: outbound

envVars == <<scenario, configs, win32, HAS_SOCKS, xray_path, maxAttempts, foreign>>
mgrVars == <<process, config_file>>
spVars == <<spConfig, tmpf, spawned, spRet, tpRet>>
osVars == <<alive, files, nextPid, nextFile>>
tcVars == <<alarmArmed, socketFactory, original_socket, elapsed, tcConfig, tcRet>>
rpVars == <<rpI, results>>
cmVars == <<tcwN, tcwI, connRet, connected_config, passes, interrupts>>
histVars == <<lastSpawned, lastCreated, hist, snap, startLog, alarmFired, callSnap>>
ntVars == <<mode, proxy, botProxy, connection_mgr, mrRet, retries, completed, sendFailed,
           unprompted, aborted, mrEntryFactory>>

sdVars == <<content, text, iteration, decodes, sdRet, sdRun, sdFirst, sdInput>>
rdVars == <<rdConfigs, rdI, seen, unique, rdRet>>
srVars == <<srResults, srI, srOrder, srRet>>
fmVars == <<fmUrls, max_workers, fmTask, fmResult, fmYielded, all_configs, fmOrder, fmRet>>
ppVars == <<pcConfig, ip, report, latency, printed, pgConfigs, pgReport, pgTask, pgFuture,
           pgYielded, icmp_results, top_configs, prRet, realping_file>>
poVars == <<poConfig, outbound>>
fnVars == <<sdVars, rdVars, srVars, fmVars, ppVars, poVars>>
\* The variables of the proxy, probing, notification and parsing parts.
hostVars ==
    <<envVars, ntVars, exc, hung, mgrVars, spVars, osVars, tcVars, rpVars, cmVars, histVars,
      poVars>>

vars == <<envVars, ntVars, fnVars, stack, exc, hung, mgrVars, spVars, osVars, tcVars, rpVars,
          cmVars, histVars>>

(***************************************************************************)
(* The stack machine.                                                      *)
(***************************************************************************)
Top == stack[Len(stack)]

At(l) == exc = "none" /\ ~hung /\ stack # <<>> /\ Top = l

Goto(l) == stack' = [stack EXCEPT ![Len(stack)] = l]

\* Call the function whose first label is `entry'; the caller resumes at `cont'.
Call(entry, cont) == stack' = Append([stack EXCEPT ![Len(stack)] = cont], entry)

Return == stack' = SubSeq(stack, 1, Len(stack) - 1)

\* Python's None where a config string or a connection result is expected.
NoConfig == [scheme |-> "", body |-> <<>>, payload |-> NoPayload]

NoConn == [found |-> FALSE, config |-> NoConfig, latency |-> NoLatency,
           host |-> "", port |-> 0]

(***************************************************************************)
(* Exception handlers.  Handler(l, e) is the label control moves to when  *)
(* exception e is raised in a frame whose next statement is l; "" when    *)
(* no try statement of that function encloses l and catches e.            *)
(***************************************************************************)
\* start_proxy, lines 632-653: the body of `try:' ... `except Exception'.
SpTryLabels ==
    {"sp_create", "sp_dump", "sp_assign", "sp_close", "sp_popen", "sp_passign",
     "sp_sleep", "sp_test", "sp_tested", "sp_fail_ret"}

\* A try statement of test_config that ends after the request, leaving the clean-up outside.
TcTryLabels_UntilRequest ==
    {"tc_arm", "tc_start", "tc_started", "tc_socks", "tc_save", "tc_set", "tc_timer", "tc_req"}

\* test_config, lines 149-196: the body of `try:' ... `except (TimeoutError, Exception)'.
TcTryLabels ==
    {"tc_arm", "tc_start", "tc_started", "tc_sf_cancel", "tc_socks", "tc_ns_cancel",
     "tc_save", "tc_set", "tc_timer", "tc_req", "tc_restore", "tc_stop", "tc_cancel"}

\* _make_request, lines 810-846: the body of `try:' ... `except Exception'.
MrTryLabels == {"mr_entry", "mr_save", "mr_set", "mr_req", "mr_restore"}

\* main, lines 1255-1402: the body of `try:' ... `except KeyboardInterrupt / Exception'.
NtTryLabels ==
    {"nt_loop", "nt_connect", "nt_connected", "nt_pysocks", "nt_sent", "nt_prompt",
     "nt_clear", "nt_cli", "nt_cli_sent", "nt_done"}

\* Handlers that name OSError alone, so that TimeoutError passes them.
IsException_OnlyOSError(e) == e = "OSError"

\* KeyboardInterrupt derives from BaseException: `except Exception' lets it pass.
IsException(e) == e \in {"OSError", "Timeout"}

Handler(l, e) ==
    CASE l \in {"st_kill", "st_wait"} -> "st_pnone"          \* lines 674-678, bare except
      [] l = "st_rm" -> "st_fnone"                           \* lines 682-685, bare except
      [] l = "tp_connect" -> "tp_except"                     \* lines 661-669, bare except
      [] l = "tc_req" -> "tc_req_ex"                         \* lines 181-186, bare except
      [] l \in SpTryLabels /\ IsException(e) -> "sp_except"  \* line 655
      [] l \in TcTryLabels /\ IsException(e) -> "tc_ex"      \* line 198
      [] l = "wf_sleep" /\ e = "KbdInt" -> "wf_interrupted"  \* line 741
      [] l \in MrTryLabels /\ IsException(e) -> "mr_except"  \* line 848
      [] l = "tc_ex" /\ original_socket # "None" -> "tc_ex_stop"   \* lines 200-204, bare except
      [] l = "mr_except" /\ original_socket # "None" -> "mr_ex_ret" \* lines 851-855, bare except
      [] l \in NtTryLabels -> "nt_except"                    \* lines 1404, 1406
      [] OTHER -> ""

\* An exception in flight moves to the innermost enclosing handler, or leaves the frame.
Unwind ==
    /\ exc # "none"
    /\ stack # <<>>
    /\ IF Handler(Top, exc) # ""
       THEN /\ Goto(Handler(Top, exc))
            /\ exc' = "none"
       ELSE /\ Return
            /\ UNCHANGED exc
    /\ hung' = FALSE
    /\ UNCHANGED <<fnVars, envVars, ntVars, mgrVars, spVars, osVars, tcVars, rpVars, cmVars, histVars>>

(***************************************************************************)
(* ConfigUtils.extract_ip_from_config, lines 68-85.                        *)
(***************************************************************************)
\* Python's None for a host; a host that is extracted has at least one character.
NoHost == <<>>

\* The value of "add" in the payloads that have one.
AddValue == <<"9">>

\* re.search(r'@([^:]+):', config), line 74: the leftmost '@', at or after position i, that
\* is followed by at least one character other than ':' and then by ':'.
RECURSIVE VlessSearch(_, _)
VlessSearch(body, i) ==
    LET at == FirstIn(body, i, {"@"})
        colon == IF at = 0 THEN 0 ELSE FirstIn(body, at + 1, {":"})
    IN  IF at = 0 \/ colon = 0 THEN NoHost
        ELSE IF colon > at + 1 THEN SubSeq(body, at + 1, colon - 1)
        ELSE VlessSearch(body, at + 1)

\* lines 80-83: b64decode(config_data + '==').decode('utf-8') raises (caught at line 84) or
\* re.search(r'"add"\s*:\s*"([^"]+)"', decoded) is applied to the text, JSON or not.
VmessSearch(payload) ==
    IF payload.b64 /\ payload.add = "text" THEN AddValue ELSE NoHost

extract_ip_from_config(config) ==
    IF config.scheme = "vless://" THEN VlessSearch(config.body, 1)
    ELSE IF config.scheme = "vmess://" THEN VmessSearch(config.payload)
    ELSE NoHost

(***************************************************************************)
(* V2RayProxyManager.start_proxy, lines 614-657.                           *)
(***************************************************************************)
\* A start that only checks for the binary and accepts any configuration text.
SpRejects_NoParseCheck(c) == xray_path = "None"

\* lines 616-627: the two early returns.
SpRejects(c) == xray_path = "None" \/ ~HasOutbound(c)

SpEntry ==
    /\ At("sp_entry")
    /\ tmpf' = None /\ spawned' = None
    /\ lastSpawned' = None /\ lastCreated' = None
    /\ callSnap' = <<process, config_file, nextPid, nextFile>>
    /\ IF SpRejects(spConfig)
       THEN spRet' = FALSE /\ Return
       ELSE Goto("sp_create") /\ UNCHANGED spRet
    /\ UNCHANGED <<fnVars, envVars, ntVars, exc, hung, mgrVars, spConfig, tpRet, osVars, tcVars, rpVars,
                   cmVars, hist, snap, startLog, alarmFired>>

\* line 634: NamedTemporaryFile(delete=False) creates the file, or raises.
SpCreate ==
    /\ At("sp_create")
    /\ \/ /\ files' = files \cup {nextFile}
          /\ nextFile' = nextFile + 1
          /\ tmpf' = nextFile
          /\ lastCreated' = nextFile
          /\ Goto("sp_dump")
          /\ UNCHANGED exc
       \/ /\ exc' = "OSError"
          /\ UNCHANGED <<stack, files, nextFile, tmpf, lastCreated>>
    /\ UNCHANGED <<fnVars, envVars, ntVars, hung, mgrVars, spConfig, spawned, spRet, tpRet, alive, nextPid,
                   tcVars, rpVars, cmVars, lastSpawned, hist, snap, startLog, alarmFired, callSnap>>

\* line 635: json.dump writes the file, or raises; the with statement closes f.
SpDump ==
    /\ At("sp_dump")
    /\ \/ Goto("sp_assign") /\ UNCHANGED exc
       \/ exc' = "OSError" /\ UNCHANGED stack
    /\ UNCHANGED <<fnVars, envVars, ntVars, hung, mgrVars, spVars, osVars, tcVars, rpVars, cmVars, histVars>>

\* line 636: self.config_file = f.name
SpAssign ==
    /\ At("sp_assign")
    /\ config_file' = tmpf
    /\ Goto("sp_close")
    /\ UNCHANGED <<fnVars, envVars, ntVars, exc, hung, process, spVars, osVars, tcVars, rpVars, cmVars,
                   histVars>>

\* line 634, leaving the with block: f is flushed and closed, or the flush raises.
SpClose ==
    /\ At("sp_close")
    /\ \/ Goto("sp_popen") /\ UNCHANGED exc
       \/ exc' = "OSError" /\ UNCHANGED stack
    /\ UNCHANGED <<fnVars, envVars, ntVars, hung, mgrVars, spVars, osVars, tcVars, rpVars, cmVars, histVars>>

\* lines 639-643: subprocess.Popen starts the child, or raises without a child.
SpPopen ==
    /\ At("sp_popen")
    /\ \/ /\ alive' = alive \cup {nextPid}
          /\ nextPid' = nextPid + 1
          /\ spawned' = nextPid
          /\ lastSpawned' = nextPid
          /\ Goto("sp_passign")
          /\ UNCHANGED exc
       \/ /\ exc' = "OSError"
          /\ UNCHANGED <<stack, alive, nextPid, spawned, lastSpawned>>
    /\ UNCHANGED <<fnVars, envVars, ntVars, hung, mgrVars, spConfig, tmpf, spRet, tpRet, files, nextFile,
                   tcVars, rpVars, cmVars, lastCreated, hist, snap, startLog, alarmFired, callSnap>>

\* line 639: self.process = <the Popen object>
SpPassign ==
    /\ At("sp_passign")
    /\ process' = spawned
    /\ Goto("sp_sleep")
    /\ UNCHANGED <<fnVars, envVars, ntVars, exc, hung, config_file, spVars, osVars, tcVars, rpVars, cmVars,
                   histVars>>

\* line 646: time.sleep(1).  Meanwhile the child tries to listen on the relay port; when
\* another program holds the port the child cannot bind, and it exits or is still trying.
SpSleep ==
    /\ At("sp_sleep")
    /\ \/ UNCHANGED alive
       \/ foreign /\ alive' = alive \ {spawned}
    /\ Goto("sp_test")
    /\ UNCHANGED <<fnVars, envVars, ntVars, exc, hung, mgrVars, spVars, files, nextPid, nextFile,
                   tcVars, rpVars, cmVars, histVars>>

\* line 649: the call of self._test_proxy()
SpTest ==
    /\ At("sp_test")
    /\ Call("tp_connect", "sp_tested")
    /\ UNCHANGED <<fnVars, envVars, ntVars, exc, hung, mgrVars, spVars, osVars, tcVars, rpVars, cmVars,
                   histVars>>

\* lines 665-667: connect_ex(('127.0.0.1', self.socks_port)) == 0, whoever accepts.
TpAccepts(open) == open \/ foreign

\* _test_proxy, lines 663-667: whether connect_ex to the relay port succeeds; open says
\* that the child listens by now.
TpConnect ==
    /\ At("tp_connect")
    /\ \E open \in BOOLEAN : tpRet' = TpAccepts(open)
    /\ Return
    /\ UNCHANGED <<fnVars, envVars, ntVars, exc, hung, mgrVars, spConfig, tmpf, spawned, spRet, osVars,
                   tcVars, rpVars, cmVars, histVars>>

\* _test_proxy, lines 668-669: except: return False
TpExcept ==
    /\ At("tp_except")
    /\ tpRet' = FALSE
    /\ Return
    /\ UNCHANGED <<fnVars, envVars, ntVars, exc, hung, mgrVars, spConfig, tmpf, spawned, spRet, osVars,
                   tcVars, rpVars, cmVars, histVars>>

\* lines 649-652: return True, or call stop_proxy on the way to return False.
SpTested ==
    /\ At("sp_tested")
    /\ IF tpRet
       THEN spRet' = TRUE /\ Return
       ELSE Call("st_entry", "sp_fail_ret") /\ UNCHANGED spRet
    /\ UNCHANGED <<fnVars, envVars, ntVars, exc, hung, mgrVars, spConfig, tmpf, spawned, tpRet, osVars,
                   tcVars, rpVars, cmVars, histVars>>

\* line 653: return False
SpFailRet ==
    /\ At("sp_fail_ret")
    /\ spRet' = FALSE
    /\ Return
    /\ UNCHANGED <<fnVars, envVars, ntVars, exc, hung, mgrVars, spConfig, tmpf, spawned, tpRet, osVars,
                   tcVars, rpVars, cmVars, histVars>>

\* lines 655-656: except Exception: self.stop_proxy()
SpExcept ==
    /\ At("sp_except")
    /\ Call("st_entry", "sp_except_ret")
    /\ UNCHANGED <<fnVars, envVars, ntVars, exc, hung, mgrVars, spVars, osVars, tcVars, rpVars, cmVars,
                   histVars>>

\* line 657: return False
SpExceptRet ==
    /\ At("sp_except_ret")
    /\ spRet' = FALSE
    /\ Return
    /\ UNCHANGED <<fnVars, envVars, ntVars, exc, hung, mgrVars, spConfig, tmpf, spawned, tpRet, osVars,
                   tcVars, rpVars, cmVars, histVars>>

(***************************************************************************)
(* V2RayProxyManager.stop_proxy, lines 671-686.                            *)
(***************************************************************************)
\* line 673: if self.process:
StEntry ==
    /\ At("st_entry")
    /\ IF process # None THEN Goto("st_kill") ELSE Goto("st_fchk")
    /\ UNCHANGED <<fnVars, envVars, ntVars, exc, hung, mgrVars, spVars, osVars, tcVars, rpVars, cmVars,
                   histVars>>

\* line 675: self.process.kill()
StKill ==
    /\ At("st_kill")
    /\ alive' = alive \ {process}
    /\ Goto("st_wait")
    /\ UNCHANGED <<fnVars, envVars, ntVars, exc, hung, mgrVars, spVars, files, nextPid, nextFile, tcVars,
                   rpVars, cmVars, histVars>>

\* line 676: self.process.wait(timeout=1); TimeoutExpired is swallowed at line 677.
StWait ==
    /\ At("st_wait")
    /\ Goto("st_pnone")
    /\ UNCHANGED <<fnVars, envVars, ntVars, exc, hung, mgrVars, spVars, osVars, tcVars, rpVars, cmVars,
                   histVars>>

\* line 679: self.process = None
StPnone ==
    /\ At("st_pnone")
    /\ process' = None
    /\ Goto("st_fchk")
    /\ UNCHANGED <<fnVars, envVars, ntVars, exc, hung, config_file, spVars, osVars, tcVars, rpVars, cmVars,
                   histVars>>

\* line 681: whether the body of `if self.config_file and os.path.exists(...)' runs.
StMustRemove == config_file # None /\ config_file \in files

StFchk ==
    /\ At("st_fchk")
    /\ IF StMustRemove THEN Goto("st_rm") ELSE Return
    /\ UNCHANGED <<fnVars, envVars, ntVars, exc, hung, mgrVars, spVars, osVars, tcVars, rpVars, cmVars,
                   histVars>>

\* line 683: os.remove(self.config_file); FileNotFoundError is swallowed at line 684.
StRm ==
    /\ At("st_rm")
    /\ files' = files \ {config_file}
    /\ Goto("st_fnone")
    /\ UNCHANGED <<fnVars, envVars, ntVars, exc, hung, mgrVars, spVars, alive, nextPid, nextFile, tcVars,
                   rpVars, cmVars, histVars>>

\* line 686: self.config_file = None
StFnone ==
    /\ At("st_fnone")
    /\ config_file' = None
    /\ Return
    /\ UNCHANGED <<fnVars, envVars, ntVars, exc, hung, process, spVars, osVars, tcVars, rpVars, cmVars,
                   histVars>>

(***************************************************************************)
(* The environment.                                                        *)
(***************************************************************************)
\* Something outside the program (a cleaner of the temporary directory) deletes a file
\* while a direct user holds the handle.
ExternalRemove ==
    /\ scenario = "handle"
    /\ stack # <<>>
    /\ \E f \in files : files' = files \ {f}
    /\ UNCHANGED <<fnVars, envVars, ntVars, stack, exc, hung, mgrVars, spVars, alive, nextPid, nextFile,
                   tcVars, rpVars, cmVars, histVars>>

(***************************************************************************)
(* A direct user of one proxy handle: it calls start_proxy and stop_proxy,*)
(* and starts the handle only while it holds no process.                  *)
(***************************************************************************)
HStart ==
    /\ At("h_idle")
    /\ Len(hist) < MaxOps
    /\ process = None
    /\ \E c \in SampleConfigs : spConfig' = c
    /\ Call("sp_entry", "h_started")
    /\ UNCHANGED <<fnVars, envVars, ntVars, exc, hung, mgrVars, tmpf, spawned, spRet, tpRet, osVars, tcVars,
                   rpVars, cmVars, histVars>>

HStarted ==
    /\ At("h_started")
    /\ hist' = Append(hist, "start")
    /\ Goto("h_idle")
    /\ UNCHANGED <<fnVars, envVars, ntVars, exc, hung, mgrVars, spVars, osVars, tcVars, rpVars, cmVars,
                   lastSpawned, lastCreated, snap, startLog, alarmFired, callSnap>>

HStop ==
    /\ At("h_idle")
    /\ Len(hist) < MaxOps
    /\ Call("st_entry", "h_stopped")
    /\ UNCHANGED <<fnVars, envVars, ntVars, exc, hung, mgrVars, spVars, osVars, tcVars, rpVars, cmVars,
                   histVars>>

HStopped ==
    /\ At("h_stopped")
    /\ hist' = Append(hist, "stop")
    /\ snap' = <<process, config_file>>
    /\ Goto("h_idle")
    /\ UNCHANGED <<fnVars, envVars, ntVars, exc, hung, mgrVars, spVars, osVars, tcVars, rpVars, cmVars,
                   lastSpawned, lastCreated, startLog, alarmFired, callSnap>>

(***************************************************************************)
(* RealPing.test_config, lines 139-211.                                    *)
(***************************************************************************)
ElapsedValues == {20, 35}    \* sample latencies of the test request, in ms

\* lines 146-147: a fresh V2RayProxyManager; original_socket = None
TcEntry ==
    /\ At("tc_entry")
    /\ process' = None /\ config_file' = None
    /\ original_socket' = "None"
    /\ elapsed' = NoLatency
    /\ alarmFired' = FALSE
    /\ Goto("tc_arm")
    /\ UNCHANGED <<fnVars, envVars, ntVars, exc, hung, spVars, osVars, alarmArmed, socketFactory, tcConfig,
                   tcRet, rpVars, cmVars, lastSpawned, lastCreated, hist, snap, startLog, callSnap>>

\* lines 151-153: the deadline is armed unless the platform is win32.
DeadlineArmed == ~win32

TcArm ==
    /\ At("tc_arm")
    /\ alarmArmed' = DeadlineArmed
    /\ Goto("tc_start")
    /\ UNCHANGED <<fnVars, envVars, ntVars, exc, hung, mgrVars, spVars, osVars, socketFactory,
                   original_socket, elapsed, tcConfig, tcRet, rpVars, cmVars, histVars>>

\* line 156: the call proxy_manager.start_proxy(config)
TcStart ==
    /\ At("tc_start")
    /\ spConfig' = tcConfig
    /\ Call("sp_entry", "tc_started")
    /\ UNCHANGED <<fnVars, envVars, ntVars, exc, hung, mgrVars, tmpf, spawned, spRet, tpRet, osVars, tcVars,
                   rpVars, cmVars, histVars>>

\* lines 156-157: if not started: proxy_manager.stop_proxy()
TcStarted ==
    /\ At("tc_started")
    /\ IF ~spRet THEN Call("st_entry", "tc_sf_cancel") ELSE Goto("tc_socks")
    /\ UNCHANGED <<fnVars, envVars, ntVars, exc, hung, mgrVars, spVars, osVars, tcVars, rpVars, cmVars,
                   histVars>>

\* lines 158-160: signal.alarm(0); return None
TcStartFailed ==
    /\ At("tc_sf_cancel")
    /\ alarmArmed' = FALSE
    /\ tcRet' = NoLatency
    /\ Goto("tc_del")
    /\ UNCHANGED <<fnVars, envVars, ntVars, exc, hung, mgrVars, spVars, osVars, socketFactory,
                   original_socket, elapsed, tcConfig, rpVars, cmVars, histVars>>

\* lines 163-164: if not HAS_SOCKS: proxy_manager.stop_proxy()
TcSocks ==
    /\ At("tc_socks")
    /\ IF ~HAS_SOCKS THEN Call("st_entry", "tc_ns_cancel") ELSE Goto("tc_save")
    /\ UNCHANGED <<fnVars, envVars, ntVars, exc, hung, mgrVars, spVars, osVars, tcVars, rpVars, cmVars,
                   histVars>>

\* lines 165-167: signal.alarm(0); return None
TcNoSocks ==
    /\ At("tc_ns_cancel")
    /\ alarmArmed' = FALSE
    /\ tcRet' = NoLatency
    /\ Goto("tc_del")
    /\ UNCHANGED <<fnVars, envVars, ntVars, exc, hung, mgrVars, spVars, osVars, socketFactory,
                   original_socket, elapsed, tcConfig, rpVars, cmVars, histVars>>

\* line 173: original_socket = sock_module.socket
TcSave ==
    /\ At("tc_save")
    /\ original_socket' = socketFactory
    /\ Goto("tc_set")
    /\ UNCHANGED <<fnVars, envVars, ntVars, exc, hung, mgrVars, spVars, osVars, alarmArmed, socketFactory,
                   elapsed, tcConfig, tcRet, rpVars, cmVars, histVars>>

\* lines 176-177: sock_module.socket = socks.socksocket
TcSet ==
    /\ At("tc_set")
    /\ socketFactory' = "socks"
    /\ Goto("tc_timer")
    /\ UNCHANGED <<fnVars, envVars, ntVars, exc, hung, mgrVars, spVars, osVars, alarmArmed, original_socket,
                   elapsed, tcConfig, tcRet, rpVars, cmVars, histVars>>

\* line 180: start = time.time()
TcTimer ==
    /\ At("tc_timer")
    /\ Goto("tc_req")
    /\ UNCHANGED <<fnVars, envVars, ntVars, exc, hung, mgrVars, spVars, osVars, tcVars, rpVars, cmVars,
                   histVars>>

\* lines 181-186: the request answers (elapsed is measured) or fails (elapsed = None).
TcRequest ==
    /\ At("tc_req")
    /\ elapsed' \in ElapsedValues \cup {NoLatency}
    /\ Goto("tc_restore")
    /\ UNCHANGED <<fnVars, envVars, ntVars, exc, hung, mgrVars, spVars, osVars, alarmArmed, socketFactory,
                   original_socket, tcConfig, tcRet, rpVars, cmVars, histVars>>

\* lines 185-186: except: elapsed = None
TcRequestExcept ==
    /\ At("tc_req_ex")
    /\ elapsed' = NoLatency
    /\ Goto("tc_restore")
    /\ UNCHANGED <<fnVars, envVars, ntVars, exc, hung, mgrVars, spVars, osVars, alarmArmed, socketFactory,
                   original_socket, tcConfig, tcRet, rpVars, cmVars, histVars>>

\* line 189: sock_module.socket = original_socket
TcRestore ==
    /\ At("tc_restore")
    /\ socketFactory' = original_socket
    /\ Goto("tc_stop")
    /\ UNCHANGED <<fnVars, envVars, ntVars, exc, hung, mgrVars, spVars, osVars, alarmArmed, original_socket,
                   elapsed, tcConfig, tcRet, rpVars, cmVars, histVars>>

\* line 190: proxy_manager.stop_proxy()
TcStop ==
    /\ At("tc_stop")
    /\ Call("st_entry", "tc_cancel")
    /\ UNCHANGED <<fnVars, envVars, ntVars, exc, hung, mgrVars, spVars, osVars, tcVars, rpVars, cmVars,
                   histVars>>

\* lines 193-196: signal.alarm(0); return elapsed
TcCancel ==
    /\ At("tc_cancel")
    /\ alarmArmed' = FALSE
    /\ tcRet' = elapsed
    /\ Goto("tc_del")
    /\ UNCHANGED <<fnVars, envVars, ntVars, exc, hung, mgrVars, spVars, osVars, socketFactory,
                   original_socket, elapsed, tcConfig, rpVars, cmVars, histVars>>

\* lines 198-204: except (TimeoutError, Exception): restore the socket factory if saved.
TcExcept ==
    /\ At("tc_ex")
    /\ socketFactory' = IF original_socket # "None" THEN original_socket ELSE socketFactory
    /\ Goto("tc_ex_stop")
    /\ UNCHANGED <<fnVars, envVars, ntVars, exc, hung, mgrVars, spVars, osVars, alarmArmed, original_socket,
                   elapsed, tcConfig, tcRet, rpVars, cmVars, histVars>>

\* line 205: proxy_manager.stop_proxy()
TcExceptStop ==
    /\ At("tc_ex_stop")
    /\ Call("st_entry", "tc_ex_cancel")
    /\ UNCHANGED <<fnVars, envVars, ntVars, exc, hung, mgrVars, spVars, osVars, tcVars, rpVars, cmVars,
                   histVars>>

\* lines 206-211: signal.alarm(0); return None
TcExceptCancel ==
    /\ At("tc_ex_cancel")
    /\ alarmArmed' = FALSE
    /\ tcRet' = NoLatency
    /\ Goto("tc_del")
    /\ UNCHANGED <<fnVars, envVars, ntVars, exc, hung, mgrVars, spVars, osVars, socketFactory,
                   original_socket, elapsed, tcConfig, rpVars, cmVars, histVars>>

\* The frame is released on return: proxy_manager.__del__ (lines 688-689) calls stop_proxy.
TcDel ==
    /\ At("tc_del")
    /\ Call("st_entry", "tc_done")
    /\ UNCHANGED <<fnVars, envVars, ntVars, exc, hung, mgrVars, spVars, osVars, tcVars, rpVars, cmVars,
                   histVars>>

TcDone ==
    /\ At("tc_done")
    /\ Return
    /\ UNCHANGED <<fnVars, envVars, ntVars, exc, hung, mgrVars, spVars, osVars, tcVars, rpVars, cmVars,
                   histVars>>

\* lines 143-144, 153: SIGALRM arrives; timeout_handler raises TimeoutError in the main thread.
AlarmFire ==
    /\ alarmArmed
    /\ exc = "none"
    /\ stack # <<>>
    /\ alarmArmed' = FALSE
    /\ alarmFired' = TRUE
    /\ exc' = "Timeout"
    /\ hung' = FALSE
    /\ UNCHANGED <<fnVars, envVars, ntVars, stack, mgrVars, spVars, osVars, socketFactory, original_socket,
                   elapsed, tcConfig, tcRet, rpVars, cmVars, lastSpawned, lastCreated, hist,
                   snap, startLog, callSnap>>

\* The blocking calls of a probe: starting the process, the port check, the test request.
HangLabels == {"sp_popen", "tp_connect", "tc_req"}

\* A blocking call of a probe that never completes on its own.
Hang ==
    /\ scenario = "realping"
    /\ exc = "none" /\ ~hung
    /\ stack # <<>> /\ Top \in HangLabels
    /\ hung' = TRUE
    /\ UNCHANGED <<fnVars, envVars, ntVars, stack, exc, mgrVars, spVars, osVars, tcVars, rpVars, cmVars,
                   histVars>>

(***************************************************************************)
(* ConfigProcessor.real_ping_configs, lines 373-389.                       *)
(***************************************************************************)
\* lines 379-380: for config in configs: latency = real_pinger.test_config(config)
RpLoop ==
    /\ At("rp_loop")
    /\ IF rpI < Len(configs)
       THEN /\ rpI' = rpI + 1
            /\ tcConfig' = configs[rpI + 1].cfg
            /\ Call("tc_entry", "rp_after")
       ELSE /\ Return
            /\ UNCHANGED <<rpI, tcConfig>>
    /\ UNCHANGED <<fnVars, envVars, ntVars, exc, hung, mgrVars, spVars, osVars, alarmArmed, socketFactory,
                   original_socket, elapsed, tcRet, results, cmVars, histVars>>

\* lines 383-384: if latency is not None: results.append((config, latency))
RpAfter ==
    /\ At("rp_after")
    /\ results' = IF tcRet # NoLatency
                  THEN Append(results, [cfg |-> tcConfig, lat |-> tcRet])
                  ELSE results
    /\ Goto("rp_loop")
    /\ UNCHANGED <<fnVars, envVars, ntVars, exc, hung, mgrVars, spVars, osVars, tcVars, rpI, cmVars,
                   histVars>>

(***************************************************************************)
(* ConfigConnectionManager, lines 692-747.                                 *)
(***************************************************************************)
\* line 704: attempts = min(max_attempts, len(self.configs))
Attempts(max_attempts) ==
    IF max_attempts < Len(configs) THEN max_attempts ELSE Len(configs)

\* line 706: len(self.configs[:attempts]); a negative bound counts from the end.
SliceLen(attempts) ==
    IF attempts >= 0 THEN attempts
    ELSE IF Len(configs) + attempts > 0 THEN Len(configs) + attempts
    ELSE 0

\* An iteration that walks the ranked list from its far end.
TcwEntry_Reversed(i) == configs[Len(configs) + 1 - i]

\* line 706: the i-th entry enumerate(self.configs[:attempts], 1) yields.
TcwEntry(i) == configs[i]

\* lines 714-718: the returned dictionary.
TcwResult(i) ==
    [found |-> TRUE, config |-> TcwEntry(i).cfg, latency |-> TcwEntry(i).lat,
     host |-> "127.0.0.1", port |-> SocksPort]

\* line 704
TcwBegin ==
    /\ At("tcw_entry")
    /\ tcwN' = SliceLen(Attempts(maxAttempts))
    /\ tcwI' = 0
    /\ startLog' = <<>>
    /\ Goto("tcw_loop")
    /\ UNCHANGED <<fnVars, envVars, ntVars, exc, hung, mgrVars, spVars, osVars, tcVars, rpVars, connRet,
                   connected_config, passes, interrupts, lastSpawned, lastCreated, hist,
                   snap, alarmFired, callSnap>>

\* lines 706-711: the next entry is tried with start_proxy; line 722: return None
TcwLoop ==
    /\ At("tcw_loop")
    /\ IF tcwI < tcwN
       THEN /\ tcwI' = tcwI + 1
            /\ spConfig' = TcwEntry(tcwI + 1).cfg
            /\ Call("sp_entry", "tcw_after")
            /\ UNCHANGED connRet
       ELSE /\ connRet' = NoConn
            /\ Return
            /\ UNCHANGED <<tcwI, spConfig>>
    /\ UNCHANGED <<fnVars, envVars, ntVars, exc, hung, mgrVars, tmpf, spawned, spRet, tpRet, osVars, tcVars,
                   rpVars, tcwN, connected_config, passes, interrupts, histVars>>

\* lines 711-720: the first success is returned; a failure moves to the next entry.
TcwAfter ==
    /\ At("tcw_after")
    /\ startLog' = Append(startLog, <<spConfig, spRet>>)
    /\ IF spRet
       THEN /\ connected_config' = TcwEntry(tcwI).cfg
            /\ connRet' = TcwResult(tcwI)
            /\ Return
       ELSE /\ Goto("tcw_loop")
            /\ UNCHANGED <<connected_config, connRet>>
    /\ UNCHANGED <<fnVars, envVars, ntVars, exc, hung, mgrVars, spVars, osVars, tcVars, rpVars, tcwN, tcwI,
                   passes, interrupts, lastSpawned, lastCreated, hist, snap, alarmFired, callSnap>>

\* lines 730-734: one more pass over the whole list.
WfPass ==
    /\ At("wf_pass")
    /\ passes < MaxPasses
    /\ passes' = passes + 1
    /\ maxAttempts' = Len(configs)
    /\ Call("tcw_entry", "wf_after")
    /\ UNCHANGED <<fnVars, ntVars, scenario, configs, win32, HAS_SOCKS, xray_path, foreign, exc, hung, mgrVars,
                   spVars, osVars, tcVars, rpVars, tcwN, tcwI, connRet, connected_config,
                   interrupts, histVars>>

\* A loop that gives up after one pass whatever its result.
WfAfter_SinglePass ==
    /\ At("wf_after")
    /\ Return
    /\ UNCHANGED <<fnVars, envVars, ntVars, exc, hung, mgrVars, spVars, osVars, tcVars, rpVars, cmVars,
                   histVars>>

\* lines 735-736: if result: return result
WfAfter ==
    /\ At("wf_after")
    /\ IF connRet.found THEN Return ELSE Goto("wf_sleep")
    /\ UNCHANGED <<fnVars, envVars, ntVars, exc, hung, mgrVars, spVars, osVars, tcVars, rpVars, cmVars,
                   histVars>>

\* lines 739-740: time.sleep(10)
WfSleep ==
    /\ At("wf_sleep")
    /\ Goto("wf_pass")
    /\ UNCHANGED <<fnVars, envVars, ntVars, exc, hung, mgrVars, spVars, osVars, tcVars, rpVars, cmVars,
                   histVars>>

\* lines 741-742: except KeyboardInterrupt: return None
WfInterrupted ==
    /\ At("wf_interrupted")
    /\ connRet' = NoConn
    /\ Return
    /\ UNCHANGED <<fnVars, envVars, ntVars, exc, hung, mgrVars, spVars, osVars, tcVars, rpVars, tcwN, tcwI,
                   connected_config, passes, interrupts, histVars>>

\* line 744: the caller of try_connect_with_configs calls disconnect() on the manager;
\* line 746: self.proxy_manager.stop_proxy()
DcEntry ==
    /\ scenario = "connect"
    /\ stack = <<>> /\ exc = "none" /\ ~hung
    /\ stack' = <<"dc_end", "st_entry">>
    /\ UNCHANGED <<fnVars, envVars, ntVars, exc, hung, mgrVars, spVars, osVars, tcVars, rpVars, cmVars,
                   histVars>>

\* line 747: self.connected_config = None; the caller goes on after disconnect().
DcEnd ==
    /\ At("dc_end")
    /\ connected_config' = NoConfig
    /\ Goto("dc_done")
    /\ UNCHANGED <<fnVars, envVars, ntVars, exc, hung, mgrVars, spVars, osVars, tcVars, rpVars,
                   tcwN, tcwI, connRet, passes, interrupts, histVars>>

\* The operator presses Ctrl+C: KeyboardInterrupt is raised in the main thread.
Interrupt ==
    /\ scenario \in {"wait", "notify"}
    /\ exc = "none"
    /\ stack # <<>>
    /\ interrupts < MaxInterrupts
    /\ interrupts' = interrupts + 1
    /\ exc' = "KbdInt"
    /\ UNCHANGED <<fnVars, envVars, ntVars, stack, hung, mgrVars, spVars, osVars, tcVars, rpVars, tcwN, tcwI,
                   connRet, connected_config, passes, histVars>>

(***************************************************************************)
(* TelegramBot._make_request, lines 807-858, reached from main through    *)
(* send_top_configs (871-890) and send_message (860-869); the results     *)
(* passed to send_top_configs are not empty (lines 1273, 1399).           *)
(***************************************************************************)
\* lines 809-829: the proxy setup is chosen; `return False' without PySocks.
MrEntry ==
    /\ At("mr_entry")
    /\ original_socket' = "None"
    /\ mrEntryFactory' = socketFactory
    /\ IF botProxy # "none" /\ HAS_SOCKS
       THEN Goto("mr_save") /\ UNCHANGED mrRet
       ELSE IF botProxy # "none"
       THEN mrRet' = FALSE /\ Return
       ELSE Goto("mr_req") /\ UNCHANGED mrRet
    /\ UNCHANGED <<fnVars, envVars, exc, hung, mgrVars, spVars, osVars, alarmArmed, socketFactory,
                   elapsed, tcConfig, tcRet, rpVars, cmVars, histVars, mode, proxy, botProxy,
                   connection_mgr, retries, completed, sendFailed, unprompted, aborted>>

\* line 817: original_socket = sock_module.socket
MrSave ==
    /\ At("mr_save")
    /\ original_socket' = socketFactory
    /\ Goto("mr_set")
    /\ UNCHANGED <<fnVars, envVars, ntVars, exc, hung, mgrVars, spVars, osVars, alarmArmed,
                   socketFactory, elapsed, tcConfig, tcRet, rpVars, cmVars, histVars>>

\* lines 820-825: sock_module.socket = socks.socksocket
MrSet ==
    /\ At("mr_set")
    /\ socketFactory' = "socks"
    /\ Goto("mr_req")
    /\ UNCHANGED <<fnVars, envVars, ntVars, exc, hung, mgrVars, spVars, osVars, alarmArmed,
                   original_socket, elapsed, tcConfig, tcRet, rpVars, cmVars, histVars>>

\* lines 832-839: the request answers 200, answers another 2xx status, or raises
\* (URLError, HTTPError for a status outside 2xx, socket timeout).
MrRequest ==
    /\ At("mr_req")
    /\ \/ mrRet' = TRUE /\ Goto("mr_restore") /\ UNCHANGED exc
       \/ mrRet' = FALSE /\ Goto("mr_restore") /\ UNCHANGED exc
       \/ exc' = "OSError" /\ UNCHANGED <<stack, mrRet>>
    /\ UNCHANGED <<fnVars, envVars, hung, mgrVars, spVars, osVars, tcVars, rpVars, cmVars, histVars,
                   mode, proxy, botProxy, connection_mgr, retries, completed, sendFailed,
                   unprompted, aborted, mrEntryFactory>>

\* lines 842-846: restore the factory and return success
MrRestore ==
    /\ At("mr_restore")
    /\ socketFactory' = IF original_socket # "None" THEN original_socket ELSE socketFactory
    /\ Return
    /\ UNCHANGED <<fnVars, envVars, ntVars, exc, hung, mgrVars, spVars, osVars, alarmArmed,
                   original_socket, elapsed, tcConfig, tcRet, rpVars, cmVars, histVars>>

\* lines 848-855: except Exception: restore the factory if it was saved
MrExcept ==
    /\ At("mr_except")
    /\ socketFactory' = IF original_socket # "None" THEN original_socket ELSE socketFactory
    /\ Goto("mr_ex_ret")
    /\ UNCHANGED <<fnVars, envVars, ntVars, exc, hung, mgrVars, spVars, osVars, alarmArmed,
                   original_socket, elapsed, tcConfig, tcRet, rpVars, cmVars, histVars>>

\* lines 857-858: print the error; return False
MrExceptRet ==
    /\ At("mr_ex_ret")
    /\ mrRet' = FALSE
    /\ Return
    /\ UNCHANGED <<fnVars, envVars, exc, hung, mgrVars, spVars, osVars, tcVars, rpVars, cmVars,
                   histVars, mode, proxy, botProxy, connection_mgr, retries, completed,
                   sendFailed, unprompted, aborted, mrEntryFactory>>

(***************************************************************************)
(* main, the notification phase: lines 1272-1415.  The loops for a saved  *)
(* bot (1288-1335) and for a custom bot (1342-1389) are the same code.    *)
(***************************************************************************)
\* lines 1290-1306: proxy = TelegramBot.detect_system_proxy()
NtDetect ==
    /\ At("nt_loop")
    /\ \E found \in BOOLEAN :
          IF found THEN proxy' = "system" /\ Goto("nt_pysocks")
                   ELSE proxy' = "none" /\ Goto("nt_connect")
    /\ UNCHANGED <<fnVars, envVars, exc, hung, mgrVars, spVars, osVars, tcVars, rpVars, cmVars,
                   histVars, mode, botProxy, connection_mgr, mrRet, retries, completed,
                   sendFailed, unprompted, aborted, mrEntryFactory>>

\* lines 1297-1298: a new ConfigConnectionManager (with a new V2RayProxyManager) tries
\* the best config: try_connect_with_configs(max_attempts=1)
NtConnect ==
    /\ At("nt_connect")
    /\ connection_mgr' = TRUE
    /\ process' = None /\ config_file' = None
    /\ connected_config' = NoConfig
    /\ maxAttempts' = 1
    /\ Call("tcw_entry", "nt_connected")
    /\ UNCHANGED <<fnVars, scenario, configs, win32, HAS_SOCKS, xray_path, foreign, exc, hung, spVars, osVars,
                   tcVars, rpVars, tcwN, tcwI, connRet, passes, interrupts, histVars, mode,
                   proxy, botProxy, mrRet, retries, completed, sendFailed, unprompted,
                   aborted, mrEntryFactory>>

\* lines 1300-1304: proxy = conn_result['proxy'] when a config connected
NtConnected ==
    /\ At("nt_connected")
    /\ proxy' = IF connRet.found THEN "relay" ELSE "none"
    /\ Goto("nt_pysocks")
    /\ UNCHANGED <<fnVars, envVars, exc, hung, mgrVars, spVars, osVars, tcVars, rpVars, cmVars,
                   histVars, mode, botProxy, connection_mgr, mrRet, retries, completed,
                   sendFailed, unprompted, aborted, mrEntryFactory>>

\* lines 1309-1315: break without PySocks, else bot.send_top_configs(results, count=10)
NtPySocks ==
    /\ At("nt_pysocks")
    /\ IF proxy # "none" /\ ~HAS_SOCKS
       THEN Goto("nt_done") /\ UNCHANGED botProxy
       ELSE botProxy' = proxy /\ Call("mr_entry", "nt_sent")
    /\ UNCHANGED <<fnVars, envVars, exc, hung, mgrVars, spVars, osVars, tcVars, rpVars, cmVars,
                   histVars, mode, proxy, connection_mgr, mrRet, retries, completed,
                   sendFailed, unprompted, aborted, mrEntryFactory>>

\* lines 1317-1323: if success: break, else the failure banner
NtSent ==
    /\ At("nt_sent")
    /\ sendFailed' = ~mrRet
    /\ unprompted' = ~mrRet
    /\ IF mrRet THEN Goto("nt_done") ELSE Goto("nt_prompt")
    /\ UNCHANGED <<fnVars, envVars, exc, hung, mgrVars, spVars, osVars, tcVars, rpVars, cmVars,
                   histVars, mode, proxy, botProxy, connection_mgr, mrRet, retries,
                   completed, aborted, mrEntryFactory>>

\* lines 1324-1335: the operator answers the prompt: '1' retries (after
\* connection_mgr.disconnect(), lines 744-746), anything else cancels.
NtPrompt ==
    /\ At("nt_prompt")
    /\ unprompted' = FALSE
    /\ \/ /\ retries < MaxRetries
          /\ retries' = retries + 1
          /\ IF connection_mgr THEN Call("st_entry", "nt_clear") ELSE Goto("nt_loop")
          /\ UNCHANGED aborted
       \/ /\ aborted' = TRUE
          /\ Goto("nt_done")
          /\ UNCHANGED retries
    /\ UNCHANGED <<fnVars, envVars, exc, hung, mgrVars, spVars, osVars, tcVars, rpVars, cmVars,
                   histVars, mode, proxy, botProxy, connection_mgr, mrRet, completed,
                   sendFailed, mrEntryFactory>>

\* lines 747 and 1331: connected_config = None; connection_mgr = None, which releases
\* the manager: V2RayProxyManager.__del__ (688-689) calls stop_proxy.
NtClear ==
    /\ At("nt_clear")
    /\ connected_config' = NoConfig
    /\ connection_mgr' = FALSE
    /\ Call("st_entry", "nt_loop")
    /\ UNCHANGED <<fnVars, envVars, exc, hung, mgrVars, spVars, osVars, tcVars, rpVars, tcwN, tcwI,
                   connRet, passes, interrupts, histVars, mode, proxy, botProxy, mrRet,
                   retries, completed, sendFailed, unprompted, aborted, mrEntryFactory>>

\* lines 1399-1400: telegram_bot.send_top_configs(results, count=10)
NtCli ==
    /\ At("nt_cli")
    /\ Call("mr_entry", "nt_cli_sent")
    /\ UNCHANGED <<fnVars, envVars, ntVars, exc, hung, mgrVars, spVars, osVars, tcVars, rpVars,
                   cmVars, histVars>>

\* line 1400: the value send_top_configs returned is dropped
NtCliSent ==
    /\ At("nt_cli_sent")
    /\ sendFailed' = ~mrRet
    /\ unprompted' = ~mrRet
    /\ Goto("nt_done")
    /\ UNCHANGED <<fnVars, envVars, exc, hung, mgrVars, spVars, osVars, tcVars, rpVars, cmVars,
                   histVars, mode, proxy, botProxy, connection_mgr, mrRet, retries,
                   completed, aborted, mrEntryFactory>>

\* line 1402: print("All operations completed successfully!")
NtDone ==
    /\ At("nt_done")
    /\ completed' = TRUE
    /\ Goto("nt_finally")
    /\ UNCHANGED <<fnVars, envVars, exc, hung, mgrVars, spVars, osVars, tcVars, rpVars, cmVars,
                   histVars, mode, proxy, botProxy, connection_mgr, mrRet, retries,
                   sendFailed, unprompted, aborted, mrEntryFactory>>

\* lines 1404-1409: except KeyboardInterrupt / except Exception
NtExcept ==
    /\ At("nt_except")
    /\ Goto("nt_finally")
    /\ UNCHANGED <<fnVars, envVars, ntVars, exc, hung, mgrVars, spVars, osVars, tcVars, rpVars,
                   cmVars, histVars>>

\* lines 1410-1413: finally: if connection_mgr: connection_mgr.disconnect()
NtFinally ==
    /\ At("nt_finally")
    /\ IF connection_mgr THEN Call("st_entry", "nt_end") ELSE Goto("nt_end")
    /\ UNCHANGED <<fnVars, envVars, ntVars, exc, hung, mgrVars, spVars, osVars, tcVars, rpVars,
                   cmVars, histVars>>

\* lines 747 and 1415: main returns
NtEnd ==
    /\ At("nt_end")
    /\ connected_config' = IF connection_mgr THEN NoConfig ELSE connected_config
    /\ Return
    /\ UNCHANGED <<fnVars, envVars, ntVars, exc, hung, mgrVars, spVars, osVars, tcVars, rpVars,
                   tcwN, tcwI, connRet, passes, interrupts, histVars>>

(***************************************************************************)
(* Texts.  A text is the sequence of its base64 layers, outermost first:  *)
(* element 1 describes the string itself, element i + 1 the string that   *)
(* the data characters of element i decode to (after invalid UTF-8        *)
(* sequences are dropped).  <<>> is the empty string.  A layer records    *)
(*   ws     the string has leading or trailing whitespace,                *)
(*   scheme it starts with one of the prefixes of line 228,               *)
(*   alnum  it is longer than 20 characters and all its characters        *)
(*          before the trailing run of '=' are in [A-Za-z0-9+/],          *)
(*   data   the number of those characters modulo 4,                      *)
(*   eq     the length of the trailing run of '=',                        *)
(*   lines  its lines (when it is not alphanumeric).                      *)
(***************************************************************************)
Layer(ws, scheme, alnum, data, eq, lines) ==
    [ws |-> ws, scheme |-> scheme, alnum |-> alnum, data |-> data, eq |-> eq, lines |-> lines]

\* Encodings of a non-empty text: padded, and unpadded with a newline after it.
WrapLayers == {Layer(FALSE, FALSE, TRUE, 0, 0, <<>>), Layer(TRUE, FALSE, TRUE, 3, 0, <<>>)}

\* Innermost strings: a config list, other prose, and alphanumeric strings that
\* encode no text (their bytes are not UTF-8, or their length is no base64 length).
CoreLayers ==
    {Layer(ws, scheme, FALSE, 0, 0, <<>>) : ws \in BOOLEAN, scheme \in BOOLEAN}
    \cup {Layer(FALSE, FALSE, TRUE, data, eq, <<>>) : data \in 0..3, eq \in 0..3}

WrapSeqs == UNION {[1..n -> WrapLayers] : n \in 0..MaxWraps}

Texts == {<<>>} \cup {w \o <<c>> : w \in WrapSeqs, c \in CoreLayers}

\* str.strip()
Strip(t) == IF t = <<>> THEN t ELSE [t EXCEPT ![1].ws = FALSE]

\* Bytes: the text they hold, and whether invalid UTF-8 sequences are among them.
Utf8Encode(t) == [bad |-> FALSE, str |-> t]

\* bytes.decode('utf-8', errors='ignore'): the invalid sequences are dropped.
Utf8DecodeIgnore(b) == b.str

Contents ==
    {[bad |-> FALSE, str |-> t] : t \in Texts}
    \cup {[bad |-> TRUE, str |-> t] : t \in {x \in Texts : Len(x) <= 1}}

\* len(text) % 4 of a stripped text
LenMod4(t) == (t[1].data + t[1].eq) % 4

(***************************************************************************)
(* ConfigFetcher.is_base64, lines 219-235.                                 *)
(***************************************************************************)
\* line 232: ^[A-Za-z0-9+/]*={0,2}$ on a text longer than 20 characters (line 235)
MatchesPattern(t) == t # <<>> /\ t[1].alnum /\ t[1].eq <= 2

is_base64(t) ==
    LET stripped == Strip(t)
    IN  IF stripped # <<>> /\ stripped[1].scheme THEN FALSE
        ELSE MatchesPattern(stripped)

(***************************************************************************)
(* ConfigFetcher.smart_decode, lines 238-285.                              *)
(***************************************************************************)
\* A loop that gives up only after more layers than any body has.
max_iterations_Unbounded == MaxWraps + 2

\* line 251
max_iterations == 5

\* lines 260-262 with the padding formula '=' * missing_padding
SdPad_MissingCount(t) ==
    IF LenMod4(t) # 0 THEN [t EXCEPT ![1].eq = @ + LenMod4(t)] ELSE t

\* lines 260-262: missing_padding = len(text) % 4; text += '=' * (4 - missing_padding)
SdPad(t) ==
    IF LenMod4(t) # 0 THEN [t EXCEPT ![1].eq = @ + (4 - LenMod4(t))] ELSE t

\* base64.b64decode raises binascii.Error: one data character too many, or too little padding.
B64Raises(t) ==
    \/ t[1].data = 1
    \/ t[1].data = 2 /\ t[1].eq < 2
    \/ t[1].data = 3 /\ t[1].eq < 1

\* line 264: base64.b64decode(text).decode('utf-8', errors='ignore')
B64DecodeText(t) == Tail(t)

\* One evaluation of the loop condition and body, lines 254-276, on the locals
\* s = [text, iteration, decodes, done].
SdBody(s) ==
    IF ~(s.iteration < max_iterations) THEN [s EXCEPT !.done = TRUE]
    ELSE IF ~is_base64(s.text) THEN [s EXCEPT !.done = TRUE]
    ELSE LET padded == SdPad(s.text)
         IN  IF B64Raises(padded)
             THEN [text |-> padded, iteration |-> s.iteration,
                   decodes |-> s.decodes + 1, done |-> TRUE]
             ELSE LET decoded == Strip(B64DecodeText(padded))
                  IN  IF decoded # <<>> /\ decoded # padded
                      THEN [text |-> decoded, iteration |-> s.iteration + 1,
                            decodes |-> s.decodes + 1, done |-> FALSE]
                      ELSE [text |-> padded, iteration |-> s.iteration,
                            decodes |-> s.decodes + 1, done |-> TRUE]

\* lines 248-252
SdStart(c) ==
    [text |-> Strip(Utf8DecodeIgnore(c)), iteration |-> 0, decodes |-> 0, done |-> FALSE]

RECURSIVE SdRun(_)
SdRun(s) == IF s.done THEN s.text ELSE SdRun(SdBody(s))

\* smart_decode as a function of its argument.
smart_decode(c) == SdRun(SdStart(c))

SdEntry ==
    /\ At("sd_entry")
    /\ text' = SdStart(content).text
    /\ iteration' = 0
    /\ decodes' = 0
    /\ Goto("sd_while")
    /\ UNCHANGED <<poVars, ppVars, envVars, ntVars, rdVars, srVars, fmVars, content, sdRet, sdRun, sdFirst, sdInput, exc, hung, mgrVars, spVars,
                   osVars, tcVars, rpVars, cmVars, histVars>>

SdWhile ==
    /\ At("sd_while")
    /\ LET s == SdBody([text |-> text, iteration |-> iteration, decodes |-> decodes,
                        done |-> FALSE])
       IN  /\ text' = s.text
           /\ iteration' = s.iteration
           /\ decodes' = s.decodes
           /\ IF s.done THEN Goto("sd_return") ELSE UNCHANGED stack
    /\ UNCHANGED <<poVars, ppVars, envVars, ntVars, rdVars, srVars, fmVars, content, sdRet, sdRun, sdFirst, sdInput, exc, hung, mgrVars, spVars,
                   osVars, tcVars, rpVars, cmVars, histVars>>

\* line 278: return text
SdReturn ==
    /\ At("sd_return")
    /\ sdRet' = text
    /\ Return
    /\ UNCHANGED <<poVars, ppVars, envVars, ntVars, rdVars, srVars, fmVars, content, text, iteration, decodes, sdRun, sdFirst, sdInput, exc, hung,
                   mgrVars, spVars, osVars, tcVars, rpVars, cmVars, histVars>>

\* The caller passes the returned text, encoded, to smart_decode once more.
SdAgain ==
    /\ scenario = "decode"
    /\ stack = <<>> /\ exc = "none"
    /\ sdRun = 1
    /\ sdRun' = 2
    /\ sdFirst' = sdRet
    /\ content' = Utf8Encode(sdRet)
    /\ stack' = <<"sd_entry">>
    /\ UNCHANGED <<poVars, ppVars, envVars, ntVars, rdVars, srVars, fmVars, text, iteration, decodes, sdRet, sdInput, exc, hung, mgrVars, spVars,
                   osVars, tcVars, rpVars, cmVars, histVars>>

SmartDecodeStep == SdEntry \/ SdWhile \/ SdReturn \/ SdAgain

(***************************************************************************)
(* Lines.  A line is its scheme prefix ("" when it has none), the         *)
(* characters after the prefix, and whether whitespace surrounds it.      *)
(***************************************************************************)
Line(ws, scheme, rest) == [ws |-> ws, scheme |-> scheme, rest |-> rest]

SampleLines ==
    {Line(ws, l[1], l[2]) : ws \in BOOLEAN, l \in {<<"", "">>, <<"vless://", "a">>}}
    \cup {Line(FALSE, "vless://", "b"), Line(TRUE, "vmess://", "c"), Line(FALSE, "ss://", "d")}

LineLists == UNION {[1..n -> SampleLines] : n \in 0..MaxLines}

\* ConfigUtils.normalize_config, lines 93-95: config.strip()
normalize_config(config) == [config EXCEPT !.ws = FALSE]

\* ConfigUtils.is_valid_config, lines 88-90: config.startswith(('vless://', 'vmess://'))
is_valid_config(config) == ~config.ws /\ config.scheme \in {"vless://", "vmess://"}

\* bool(line): the line is not the empty string.
NonEmpty(l) == l.ws \/ l.scheme # "" \/ l.rest # ""

(***************************************************************************)
(* ConfigProcessor.remove_duplicates, lines 326-336.                       *)
(***************************************************************************)
\* A filter that never consults the set of lines already seen.
RdKeeps_IgnoresSeen(normalized, seenSet) == NonEmpty(normalized) /\ is_valid_config(normalized)

\* lines 332-333: the line is appended
RdKeeps(normalized, seenSet) ==
    NonEmpty(normalized) /\ is_valid_config(normalized) /\ normalized \notin seenSet

\* lines 328-329
RdEntry ==
    /\ At("rd_entry")
    /\ seen' = {} /\ unique' = <<>> /\ rdI' = 0
    /\ Goto("rd_loop")
    /\ UNCHANGED <<poVars, ppVars, envVars, ntVars, sdVars, srVars, fmVars, rdConfigs, rdRet, exc, hung, mgrVars, spVars, osVars,
                   tcVars, rpVars, cmVars, histVars>>

\* lines 330-335: one iteration of `for config in configs'
RdLoop ==
    /\ At("rd_loop")
    /\ IF rdI < Len(rdConfigs)
       THEN LET normalized == normalize_config(rdConfigs[rdI + 1])
            IN  /\ rdI' = rdI + 1
                /\ IF RdKeeps(normalized, seen)
                   THEN seen' = seen \cup {normalized} /\ unique' = Append(unique, normalized)
                   ELSE UNCHANGED <<seen, unique>>
                /\ UNCHANGED stack
       ELSE Goto("rd_return") /\ UNCHANGED <<rdI, seen, unique>>
    /\ UNCHANGED <<poVars, ppVars, envVars, ntVars, sdVars, srVars, fmVars, rdConfigs, rdRet, exc, hung, mgrVars, spVars, osVars,
                   tcVars, rpVars, cmVars, histVars>>

\* line 336: return unique
RdReturn ==
    /\ At("rd_return")
    /\ rdRet' = unique
    /\ Return
    /\ UNCHANGED <<poVars, ppVars, envVars, ntVars, sdVars, srVars, fmVars, rdConfigs, rdI, seen, unique, exc, hung, mgrVars,
                   spVars, osVars, tcVars, rpVars, cmVars, histVars>>

RemoveDuplicatesStep == RdEntry \/ RdLoop \/ RdReturn

(***************************************************************************)
(* ConfigProcessor.sort_by_latency, lines 391-395:                         *)
(* sorted(results, key=lambda x: x[1]).  On lists this short the built-in  *)
(* sort is a binary insertion sort: each element in turn is inserted into  *)
(* the sorted prefix after the elements whose key is not greater than its  *)
(* own.  The list holds references: srOrder is the order of the input      *)
(* positions in the list being built.  Latencies are in tenths of ms.      *)
(***************************************************************************)
SampleResults == {<<c, l>> : c \in {"A", "B", "C"}, l \in {101, 502}}

ResultLists == UNION {[1..n -> SampleResults] : n \in 0..MaxResults}

\* key=lambda x: x[1]
SortKey(x) == x[2]

\* An insertion point before the elements of equal key.
SortPos_BeforeEqual(order, k) ==
    Cardinality({j \in DOMAIN order : SortKey(srResults[order[j]]) < SortKey(srResults[k])})

\* Elements of the sorted prefix that stay in front of input element k.
SortPos(order, k) ==
    Cardinality({j \in DOMAIN order : SortKey(srResults[order[j]]) <= SortKey(srResults[k])})

InsertAt(order, p, k) == SubSeq(order, 1, p) \o <<k>> \o SubSeq(order, p + 1, Len(order))

SrEntry ==
    /\ At("sr_entry")
    /\ srOrder' = <<>> /\ srI' = 0
    /\ Goto("sr_insert")
    /\ UNCHANGED <<poVars, ppVars, envVars, ntVars, sdVars, rdVars, fmVars, srResults, srRet, exc, hung, mgrVars, spVars,
                   osVars, tcVars, rpVars, cmVars, histVars>>

SrInsert ==
    /\ At("sr_insert")
    /\ IF srI < Len(srResults)
       THEN /\ srI' = srI + 1
            /\ srOrder' = InsertAt(srOrder, SortPos(srOrder, srI + 1), srI + 1)
            /\ UNCHANGED stack
       ELSE Goto("sr_return") /\ UNCHANGED <<srI, srOrder>>
    /\ UNCHANGED <<poVars, ppVars, envVars, ntVars, sdVars, rdVars, fmVars, srResults, srRet, exc, hung, mgrVars, spVars,
                   osVars, tcVars, rpVars, cmVars, histVars>>

\* line 395: the sorted list is returned
SrReturn ==
    /\ At("sr_return")
    /\ srRet' = [i \in DOMAIN srOrder |-> srResults[srOrder[i]]]
    /\ Return
    /\ UNCHANGED <<poVars, ppVars, envVars, ntVars, sdVars, rdVars, fmVars, srResults, srI, srOrder, exc, hung, mgrVars,
                   spVars, osVars, tcVars, rpVars, cmVars, histVars>>

SortStep == SrEntry \/ SrInsert \/ SrReturn

(***************************************************************************)
(* ConfigFetcher.fetch_url (lines 287-299) and fetch_multiple (301-317).   *)
(* Each URL is a task of the thread pool: "queued", "running" in a worker  *)
(* thread, or "done" with the tuple fetch_url returned.  The main thread   *)
(* runs the as_completed loop.  What a URL answers is given: the request   *)
(* raises, or the body is read.                                            *)
(***************************************************************************)
LineA == Line(FALSE, "vless://", "a")
LineB == Line(TRUE, "vless://", "b")
LineD == Line(TRUE, "ss://", "d")
BlankLine == Line(TRUE, "", "")

PlainBody == <<Layer(FALSE, TRUE, FALSE, 0, 0, <<LineA, BlankLine, LineD>>)>>
WrappedBody ==
    <<Layer(TRUE, FALSE, TRUE, 3, 0, <<>>), Layer(TRUE, TRUE, FALSE, 0, 0, <<LineB, LineA>>)>>
OddBody == <<Layer(FALSE, FALSE, TRUE, 1, 0, <<>>)>>

Responses ==
    {[ok |-> FALSE, body |-> Utf8Encode(<<>>)]}
    \cup {[ok |-> TRUE, body |-> Utf8Encode(t)] : t \in {<<>>, PlainBody, WrappedBody, OddBody}}
    \cup {[ok |-> TRUE, body |-> [bad |-> TRUE, str |-> PlainBody]]}

UrlLists == UNION {[1..n -> Responses] : n \in 0..MaxUrls}

\* Python's None where fetch_url returns no content.
NoContent == [ok |-> FALSE, str |-> <<>>]

\* lines 289-299: the tuple's second element, None when urlopen or read raises
fetch_url(r) == IF r.ok THEN [ok |-> TRUE, str |-> smart_decode(r.body)] ELSE NoContent

\* content.split('\n'): an alphanumeric text is one line, whitespace around the
\* text gives blank lines.
SplitLines(t) ==
    IF t = <<>> THEN <<Line(FALSE, "", "")>>
    ELSE LET inner == IF t[1].alnum THEN <<Line(FALSE, "", "base64")>> ELSE t[1].lines
         IN  IF t[1].ws THEN <<BlankLine>> \o inner \o <<BlankLine>> ELSE inner

\* line.strip()
StripLine(l) == [l EXCEPT !.ws = FALSE]

\* line 314: [line.strip() for line in content.split('\n') if line.strip()]
RECURSIVE StrippedNonEmpty(_)
StrippedNonEmpty(ls) ==
    IF ls = <<>> THEN <<>>
    ELSE IF NonEmpty(StripLine(Head(ls)))
         THEN <<StripLine(Head(ls))>> \o StrippedNonEmpty(Tail(ls))
         ELSE StrippedNonEmpty(Tail(ls))

\* lines 313-315: what one completed future adds to all_configs
FmConfigs(res) ==
    IF res.ok /\ res.str # <<>> THEN StrippedNonEmpty(SplitLines(res.str)) ELSE <<>>

\* A loop that stops at the first future whose fetch failed.
FmLoopDone_StopsAtFailure ==
    \/ fmYielded = DOMAIN fmUrls
    \/ \E u \in fmYielded : ~fmResult[u].ok

\* line 309: as_completed has yielded every future
FmLoopDone == fmYielded = DOMAIN fmUrls

\* A pool that starts a task whenever one is queued.
PoolHasIdleWorker_Unbounded(running) == TRUE

\* ThreadPoolExecutor(max_workers=self.max_workers), lines 306 and 357: a queued task is
\* taken only by a worker thread that runs no other task.
PoolHasIdleWorker(running) == running < max_workers

\* lines 303-307: every URL is submitted to the pool
FmEntry ==
    /\ At("fm_entry")
    /\ all_configs' = <<>>
    /\ fmTask' = [u \in DOMAIN fmUrls |-> "queued"]
    /\ fmResult' = [u \in DOMAIN fmUrls |-> NoContent]
    /\ fmYielded' = {}
    /\ fmOrder' = <<>>
    /\ Goto("fm_loop")
    /\ UNCHANGED <<poVars, ppVars, envVars, ntVars, sdVars, rdVars, srVars, fmUrls, max_workers, fmRet, exc, hung,
                   mgrVars, spVars, osVars, tcVars, rpVars, cmVars, histVars>>

\* A worker thread of the pool takes a queued task.
FmWorkerStart(u) ==
    /\ scenario = "fetch"
    /\ stack # <<>> /\ Top = "fm_loop"
    /\ fmTask[u] = "queued"
    /\ PoolHasIdleWorker(Cardinality({v \in DOMAIN fmUrls : fmTask[v] = "running"}))
    /\ fmTask' = [fmTask EXCEPT ![u] = "running"]
    /\ UNCHANGED <<poVars, ppVars, envVars, ntVars, sdVars, rdVars, srVars, fmUrls, max_workers, fmResult,
                   fmYielded, all_configs, fmOrder, fmRet, stack, exc, hung, mgrVars, spVars,
                   osVars, tcVars, rpVars, cmVars, histVars>>

\* The worker's call of fetch_url returns and the future completes.
FmWorkerFinish(u) ==
    /\ scenario = "fetch"
    /\ stack # <<>> /\ Top = "fm_loop"
    /\ fmTask[u] = "running"
    /\ fmTask' = [fmTask EXCEPT ![u] = "done"]
    /\ fmResult' = [fmResult EXCEPT ![u] = fetch_url(fmUrls[u])]
    /\ UNCHANGED <<poVars, ppVars, envVars, ntVars, sdVars, rdVars, srVars, fmUrls, max_workers, fmYielded,
                   all_configs, fmOrder, fmRet, stack, exc, hung, mgrVars, spVars, osVars,
                   tcVars, rpVars, cmVars, histVars>>

FmWorker == \E u \in DOMAIN fmUrls : FmWorkerStart(u) \/ FmWorkerFinish(u)

\* lines 309-315: as_completed yields a completed future not yielded before
FmLoop ==
    /\ At("fm_loop")
    /\ IF FmLoopDone
       THEN Goto("fm_return") /\ UNCHANGED <<fmYielded, all_configs, fmOrder>>
       ELSE \E u \in DOMAIN fmUrls \ fmYielded :
               /\ fmTask[u] = "done"
               /\ fmYielded' = fmYielded \cup {u}
               /\ fmOrder' = Append(fmOrder, u)
               /\ all_configs' = all_configs \o FmConfigs(fmResult[u])
               /\ UNCHANGED stack
    /\ UNCHANGED <<poVars, ppVars, envVars, ntVars, sdVars, rdVars, srVars, fmUrls, max_workers, fmTask, fmResult,
                   fmRet, exc, hung, mgrVars, spVars, osVars, tcVars, rpVars, cmVars, histVars>>

\* line 317: return all_configs (the pool is shut down, every task has finished)
FmReturn ==
    /\ At("fm_return")
    /\ \A u \in DOMAIN fmUrls : fmTask[u] = "done"
    /\ fmRet' = all_configs
    /\ Return
    /\ UNCHANGED <<poVars, ppVars, envVars, ntVars, sdVars, rdVars, srVars, fmUrls, max_workers, fmTask, fmResult,
                   fmYielded, all_configs, fmOrder, exc, hung, mgrVars, spVars, osVars, tcVars,
                   rpVars, cmVars, histVars>>

FetchStep == FmEntry \/ FmWorker \/ FmLoop \/ FmReturn

(***************************************************************************)
(* ICMPPing.ping (lines 100-132), ConfigProcessor.ping_config (338-345)    *)
(* and ping_configs (352-371), PingCoApp.run_single_ping (1048-1057) and   *)
(* the first stage of PingCoApp._process_configs (1116-1131).              *)
(* What the ping command reports for a host is given: its return code and  *)
(* the average round trip of its report (NoAverage when the report has no  *)
(* line the pattern matches), in ms.  A command that runs out of time      *)
(* (line 130) ends as one that returns a non-zero code.                    *)
(***************************************************************************)
Report(returncode, avg) == [returncode |-> returncode, avg |-> avg]

PingReports == {Report(1, NoAverage), Report(0, NoAverage), Report(0, 0), Report(0, 7)}

\* lines 116-128: the average of the report, None for a failed or unreadable run.
ICMPPing_ping(r) == IF r.returncode = 0 /\ r.avg # NoAverage THEN r.avg ELSE NoLatency

\* lines 340-345 of ping_config: the second element of the tuple returned.
ping_config(config, r) ==
    IF extract_ip_from_config(config) = NoHost THEN NoLatency ELSE ICMPPing_ping(r)

\* The truth value of a latency: None and 0.0 are false.
Truthy(l) == l # NoLatency /\ l # 0

\* Strings given to extract_ip_from_config and run_single_ping.
CfgFragColon == Vless(<<"u", "@", "h", "#", "r", ":", "1">>)
CfgTwoAt == Vless(<<"u", "@", ":", "@", "h", ":", "4">>)
CfgVmessNoAdd == Vmess(Payload(TRUE, "object", "digits", "absent", "absent"))
CfgVmessLooseAdd == Vmess(Payload(TRUE, "invalid", "absent", "absent", "text"))

ExtractSamples ==
    {CfgGood, CfgParams, CfgNoAt, CfgNoPort, CfgNoHost, CfgOther, CfgFragColon, CfgTwoAt,
     CfgVmess, CfgVmessBadB64, CfgVmessNotJson, CfgVmessNoAdd, CfgVmessLooseAdd}

\* lines 1050-1051: _, latency = self.processor.ping_config(config)
RsEntry ==
    /\ At("rs_entry")
    /\ ip' = extract_ip_from_config(pcConfig)
    /\ latency' = ping_config(pcConfig, report)
    /\ Goto("rs_print")
    /\ UNCHANGED <<hostVars, sdVars, rdVars, srVars, fmVars, pcConfig, report, printed,
                   pgConfigs, pgReport, pgTask, pgFuture, pgYielded, icmp_results,
                   top_configs, prRet, realping_file>>

\* lines 1053-1057: if latency: print the ping, else print "Timeout - No response"
RsPrint ==
    /\ At("rs_print")
    /\ printed' = IF Truthy(latency) THEN "ping" ELSE "timeout"
    /\ Return
    /\ UNCHANGED <<hostVars, sdVars, rdVars, srVars, fmVars, pcConfig, ip, report, latency,
                   pgConfigs, pgReport, pgTask, pgFuture, pgYielded, icmp_results,
                   top_configs, prRet, realping_file>>

\* A collector that keeps a result only when its latency is true.
PgKeeps_Truthy(l) == Truthy(l)

\* line 364: if latency is not None
PgKeeps(l) == l # NoLatency

PgRunning == Cardinality({j \in DOMAIN pgTask : pgTask[j] = "running"})

\* line 1116: icmp_results = self.processor.ping_configs(unique_configs)
PrEntry ==
    /\ At("pr_entry")
    /\ Call("pg_entry", "pr_pinged")
    /\ UNCHANGED <<hostVars, sdVars, rdVars, srVars, fmVars, ppVars>>

\* lines 354-358: every config is submitted to the pool
PgEntry ==
    /\ At("pg_entry")
    /\ icmp_results' = <<>>
    /\ pgTask' = [i \in DOMAIN pgConfigs |-> "queued"]
    /\ pgFuture' = [i \in DOMAIN pgConfigs |-> NoLatency]
    /\ pgYielded' = {}
    /\ Goto("pg_loop")
    /\ UNCHANGED <<hostVars, sdVars, rdVars, srVars, fmVars, pcConfig, ip, report, latency,
                   printed, pgConfigs, pgReport, top_configs, prRet, realping_file>>

\* A worker thread of the pool takes a queued task.
PgWorkerStart(i) ==
    /\ scenario \in {"probe", "process"}
    /\ stack # <<>> /\ Top = "pg_loop"
    /\ pgTask[i] = "queued"
    /\ PoolHasIdleWorker(PgRunning)
    /\ pgTask' = [pgTask EXCEPT ![i] = "running"]
    /\ UNCHANGED <<hostVars, sdVars, rdVars, srVars, fmVars, pcConfig, ip, report, latency,
                   printed, pgConfigs, pgReport, pgFuture, pgYielded, icmp_results,
                   top_configs, prRet, realping_file, stack>>

\* The worker's call of ping_config returns and the future completes.
PgWorkerFinish(i) ==
    /\ scenario \in {"probe", "process"}
    /\ stack # <<>> /\ Top = "pg_loop"
    /\ pgTask[i] = "running"
    /\ pgTask' = [pgTask EXCEPT ![i] = "done"]
    /\ pgFuture' = [pgFuture EXCEPT ![i] = ping_config(pgConfigs[i], pgReport[i])]
    /\ UNCHANGED <<hostVars, sdVars, rdVars, srVars, fmVars, pcConfig, ip, report, latency,
                   printed, pgConfigs, pgReport, pgYielded, icmp_results, top_configs, prRet, realping_file,
                   stack>>

PgWorker == \E i \in DOMAIN pgConfigs : PgWorkerStart(i) \/ PgWorkerFinish(i)

\* lines 361-365: as_completed yields a completed future not yielded before
PgLoop ==
    /\ At("pg_loop")
    /\ IF pgYielded = DOMAIN pgConfigs
       THEN Goto("pg_return") /\ UNCHANGED <<pgYielded, icmp_results>>
       ELSE \E i \in DOMAIN pgConfigs \ pgYielded :
               /\ pgTask[i] = "done"
               /\ pgYielded' = pgYielded \cup {i}
               /\ icmp_results' = IF PgKeeps(pgFuture[i])
                                  THEN Append(icmp_results, <<pgConfigs[i], pgFuture[i]>>)
                                  ELSE icmp_results
               /\ UNCHANGED stack
    /\ UNCHANGED <<hostVars, sdVars, rdVars, srVars, fmVars, pcConfig, ip, report, latency,
                   printed, pgConfigs, pgReport, pgTask, pgFuture, top_configs, prRet, realping_file>>

\* line 371: return results
PgReturn ==
    /\ At("pg_return")
    /\ Return
    /\ UNCHANGED <<hostVars, sdVars, rdVars, srVars, fmVars, ppVars>>

\* lines 1118-1125: return [] when nothing answered, else sort_by_latency(icmp_results)
PrPinged ==
    /\ At("pr_pinged")
    /\ IF icmp_results = <<>>
       THEN /\ prRet' = <<>>
            /\ Return
            /\ UNCHANGED srResults
       ELSE /\ srResults' = icmp_results
            /\ Call("sr_entry", "pr_top")
            /\ UNCHANGED prRet
    /\ UNCHANGED <<hostVars, sdVars, rdVars, fmVars, srI, srOrder, srRet, pcConfig, ip, report,
                   latency, printed, pgConfigs, pgReport, pgTask, pgFuture, pgYielded,
                   icmp_results, top_configs, realping_file>>

Min(a, b) == IF a < b THEN a ELSE b

\* A selection that keeps the whole ranking.
TopSlice_Whole(icmp_sorted) == icmp_sorted

\* lines 1128, 1131: top_count = min(50, len(icmp_sorted)); icmp_sorted[:top_count]
TopSlice(icmp_sorted) == SubSeq(icmp_sorted, 1, Min(TopCount, Len(icmp_sorted)))

\* lines 1128-1132: the configs of the selection are handed to real_ping_configs
\* (lines 375-376: results = [], a new RealPing).
PrTop ==
    /\ At("pr_top")
    /\ top_configs' = [i \in DOMAIN TopSlice(srRet) |-> TopSlice(srRet)[i][1]]
    /\ configs' = [i \in DOMAIN TopSlice(srRet) |->
                      [cfg |-> TopSlice(srRet)[i][1], lat |-> TopSlice(srRet)[i][2]]]
    /\ rpI' = 0 /\ results' = <<>>
    /\ Call("rp_loop", "pr_real")
    /\ UNCHANGED <<scenario, win32, HAS_SOCKS, xray_path, maxAttempts, foreign, ntVars, exc, hung,
                   mgrVars, spVars, osVars, tcVars, cmVars, histVars, poVars, sdVars, rdVars,
                   srVars, fmVars, pcConfig, ip, report, latency, printed, pgConfigs, pgReport,
                   pgTask, pgFuture, pgYielded, icmp_results, prRet, realping_file>>

\* lines 1132-1139 and 1158-1160: return [] when no config passed the real probe, else
\* sort_by_latency(results)
PrReal ==
    /\ At("pr_real")
    /\ IF results = <<>>
       THEN /\ prRet' = <<>>
            /\ Return
            /\ UNCHANGED srResults
       ELSE /\ srResults' = [i \in DOMAIN results |-> <<results[i].cfg, results[i].lat>>]
            /\ Call("sr_entry", "pr_sorted")
            /\ UNCHANGED prRet
    /\ UNCHANGED <<hostVars, sdVars, rdVars, fmVars, srI, srOrder, srRet, pcConfig, ip, report,
                   latency, printed, pgConfigs, pgReport, pgTask, pgFuture, pgYielded,
                   icmp_results, top_configs, realping_file>>

\* lines 1142-1156: write_results(output_file, sorted_results); return sorted_results
PrSorted ==
    /\ At("pr_sorted")
    /\ realping_file' = srRet
    /\ prRet' = srRet
    /\ Return
    /\ UNCHANGED <<hostVars, sdVars, rdVars, srVars, fmVars, pcConfig, ip, report, latency,
                   printed, pgConfigs, pgReport, pgTask, pgFuture, pgYielded, icmp_results,
                   top_configs>>

PingStep == RsEntry \/ RsPrint \/ PrEntry \/ PgEntry \/ PgWorker \/ PgLoop \/ PgReturn
            \/ PrPinged \/ PrTop \/ PrReal \/ PrSorted

(***************************************************************************)
(* V2RayProxyManager._parse_vless_config (lines 489-548) and               *)
(* _parse_vmess_config (lines 550-595): the outbound built from a config.  *)
(* The characters of these strings are whole words ("type", "ws", ...)     *)
(* next to the separators "?", "&", "=" and "#"; "%2F" is an escaped "/".  *)
(* An outbound is the address, the two fields of streamSettings and, for   *)
(* each of tlsSettings, wsSettings and grpcSettings, whether the outbound  *)
(* has it and what it holds.                                               *)
(***************************************************************************)
\* s.split(sep)
RECURSIVE Split(_, _)
Split(s, sep) ==
    LET i == FirstIn(s, 1, {sep})
    IN  IF i = 0 THEN <<s>>
        ELSE <<SubSeq(s, 1, i - 1)>> \o Split(SubSeq(s, i + 1, Len(s)), sep)

\* urllib.parse.unquote(value)
Unquote(v) == [i \in DOMAIN v |-> IF v[i] = "%2F" THEN "/" ELSE v[i]]

\* lines 500-505: param_dict, as the list of the params that hold '='; a later param
\* replaces an earlier one of the same key.
ParamList(params) ==
    IF params = <<>> THEN <<>>
    ELSE SelectSeq(Split(params, "&"), LAMBDA q : FirstIn(q, 1, {"="}) # 0)

ParamKey(q) == SubSeq(q, 1, FirstIn(q, 1, {"="}) - 1)

ParamValue(q) == Unquote(SubSeq(q, FirstIn(q, 1, {"="}) + 1, Len(q)))

\* param_dict.get(key, default)
ParamGet(plist, key, default) ==
    LET idx == {i \in DOMAIN plist : ParamKey(plist[i]) = <<key>>}
    IN  IF idx = {} THEN default
        ELSE ParamValue(plist[CHOOSE i \in idx : \A j \in idx : j <= i])

NoOutbound ==
    [ok |-> FALSE, address |-> <<>>, network |-> <<>>, security |-> <<>>,
     hasTls |-> FALSE, serverName |-> <<>>, hasWs |-> FALSE, path |-> <<>>, Host |-> <<>>,
     hasGrpc |-> FALSE, serviceName |-> <<>>]

\* lines 491-548
parse_vless_config(c) ==
    LET m == VlessMatch(c.body)
        d == ParamList(m.params)
        type == ParamGet(d, "type", <<"tcp">>)
        security == ParamGet(d, "security", <<"none">>)
    IN  IF ~m.ok THEN NoOutbound
        ELSE [ok |-> TRUE, address |-> m.address, network |-> type, security |-> security,
              hasTls |-> security = <<"tls">>,
              serverName |-> IF security = <<"tls">> THEN ParamGet(d, "sni", m.address) ELSE <<>>,
              hasWs |-> type = <<"ws">>,
              path |-> IF type = <<"ws">> THEN ParamGet(d, "path", <<"/">>) ELSE <<>>,
              Host |-> IF type = <<"ws">> THEN ParamGet(d, "host", m.address) ELSE <<>>,
              hasGrpc |-> type = <<"grpc">>,
              serviceName |-> IF type = <<"grpc">> THEN ParamGet(d, "serviceName", <<>>)
                              ELSE <<>>]

\* vmess_data.get('add'): the value of the key, None (no characters) without it.
VmessAdd(p) == IF p.add = "text" THEN AddValue ELSE <<>>

\* lines 552-595; the payloads hold none of the keys 'sni', 'path' and 'host'.
parse_vmess_config(c) ==
    IF ~ParseVmessOk(c) THEN NoOutbound
    ELSE LET p == c.payload
         IN  [ok |-> TRUE, address |-> VmessAdd(p),
              network |-> IF p.net = "absent" THEN <<"tcp">> ELSE <<p.net>>,
              security |-> IF p.tls = "absent" THEN <<"none">> ELSE <<p.tls>>,
              hasTls |-> p.tls = "tls",
              serverName |-> IF p.tls = "tls" THEN VmessAdd(p) ELSE <<>>,
              hasWs |-> p.net = "ws",
              path |-> IF p.net = "ws" THEN <<"/">> ELSE <<>>,
              Host |-> IF p.net = "ws" THEN VmessAdd(p) ELSE <<>>,
              hasGrpc |-> FALSE,
              serviceName |-> <<>>]

\* start_proxy, lines 620-624: the outbound is parsed by scheme.
ParseOutbound(c) ==
    IF c.scheme = "vless://" THEN parse_vless_config(c)
    ELSE IF c.scheme = "vmess://" THEN parse_vmess_config(c)
    ELSE NoOutbound

VmessWith(net, tls) == Vmess([CfgVmess.payload EXCEPT !.net = net, !.tls = tls])

HostPort == <<"u", "@", "h", ":", "4">>

OutboundSamples ==
    {CfgGood, CfgNoPort, CfgOther, CfgVmessNotJson,
     Vless(HostPort \o <<"?", "type", "=", "ws", "&", "path", "=", "%2F", "p", "&",
                         "host", "=", "x">>),
     Vless(HostPort \o <<"?", "type", "=", "ws", "#", "r">>),
     Vless(HostPort \o <<"?", "security", "=", "tls", "&", "type", "=", "grpc", "&",
                         "serviceName", "=", "s">>),
     Vless(HostPort \o <<"?", "type", "=", "grpc", "&", "security", "=", "tls", "&",
                         "sni", "=", "n", "#", "r">>),
     Vless(HostPort \o <<"?", "type", "=", "tcp", "&", "type", "=", "ws", "&", "flow">>),
     VmessWith("absent", "absent"), VmessWith("ws", "tls"), VmessWith("grpc", "absent"),
     VmessWith("tcp", "tls")}

\* What the parsers return for each of these strings.
Outbounds == [c \in OutboundSamples |-> ParseOutbound(c)]

\* The call of a parser made by start_proxy, on its own.
PoEntry ==
    /\ At("po_entry")
    /\ outbound' = Outbounds[poConfig]
    /\ Return
    /\ UNCHANGED <<envVars, ntVars, exc, hung, mgrVars, spVars, osVars, tcVars, rpVars, cmVars,
                   histVars, sdVars, rdVars, srVars, fmVars, ppVars, poConfig>>

(***************************************************************************)
(* Initial states and the next-state relation.                             *)
(***************************************************************************)
\* Probe results the lists are made of: (config, latency in ms).
Entries ==
    {[cfg |-> CfgGood, lat |-> 10], [cfg |-> CfgVmess, lat |-> 10],
     [cfg |-> CfgNoPort, lat |-> 50]}

\* Lists as sort_by_latency and remove_duplicates leave them: ascending, no config twice.
RankedLists ==
    {s \in UNION {[1..n -> Entries] : n \in 0..MaxList} :
        \A i, j \in DOMAIN s : i < j => s[i].lat <= s[j].lat /\ s[i] # s[j]}

InitCommon ==
    /\ exc = "none" /\ hung = FALSE
    /\ process = None /\ config_file = None
    /\ spConfig = NoConfig /\ tmpf = None /\ spawned = None
    /\ spRet = FALSE /\ tpRet = FALSE
    /\ alive = {} /\ files = {} /\ nextPid = 1 /\ nextFile = 1
    /\ alarmArmed = FALSE /\ socketFactory = "orig" /\ original_socket = "None"
    /\ elapsed = NoLatency /\ tcConfig = NoConfig /\ tcRet = NoLatency
    /\ rpI = 0 /\ results = <<>>
    /\ tcwN = 0 /\ tcwI = 0 /\ connRet = NoConn /\ connected_config = NoConfig
    /\ passes = 0 /\ interrupts = 0
    /\ lastSpawned = None /\ lastCreated = None
    /\ hist = <<>> /\ snap = <<None, None>> /\ startLog = <<>> /\ alarmFired = FALSE
    /\ callSnap = <<None, None, 1, 1>>
    /\ proxy = "none" /\ connection_mgr = FALSE /\ mrRet = FALSE /\ retries = 0
    /\ completed = FALSE /\ sendFailed = FALSE /\ unprompted = FALSE /\ aborted = FALSE
    /\ mrEntryFactory = "orig"
    /\ fmTask = <<>> /\ fmResult = <<>> /\ fmYielded = {} /\ all_configs = <<>>
    /\ fmOrder = <<>> /\ fmRet = <<>>
    /\ srI = 0 /\ srOrder = <<>> /\ srRet = <<>>
    /\ rdI = 0 /\ seen = {} /\ unique = <<>> /\ rdRet = <<>>
    /\ text = <<>> /\ iteration = 0 /\ decodes = 0 /\ sdRet = <<>> /\ sdFirst = <<>>
    /\ ip = NoHost /\ latency = NoLatency /\ printed = "nothing"
    /\ pgTask = <<>> /\ pgFuture = <<>> /\ pgYielded = {} /\ icmp_results = <<>>
    /\ top_configs = <<>> /\ prRet = <<>> /\ realping_file = <<>>
    /\ outbound = NoOutbound

\* One V2RayProxyManager used directly.
InitHandle ==
    /\ scenario = "handle"
    /\ foreign \in BOOLEAN
    /\ configs = <<>>
    /\ win32 = FALSE /\ HAS_SOCKS = TRUE
    /\ xray_path \in {"xray", "None"}
    /\ maxAttempts = 0
    /\ stack = <<"h_idle">>

\* ConfigProcessor.real_ping_configs(configs)
InitRealPing ==
    /\ scenario = "realping"
    /\ foreign = FALSE
    /\ configs \in RankedLists
    /\ win32 \in BOOLEAN /\ HAS_SOCKS \in BOOLEAN
    /\ xray_path \in {"xray", "None"}
    /\ maxAttempts = 0
    /\ stack = <<"rp_loop">>

\* ConfigConnectionManager(configs).try_connect_with_configs(max_attempts)
InitConnect ==
    /\ scenario = "connect"
    /\ foreign = FALSE
    /\ configs \in RankedLists
    /\ win32 = FALSE /\ HAS_SOCKS = TRUE
    /\ xray_path \in {"xray", "None"}
    /\ maxAttempts \in -1..(MaxList + 1)
    /\ stack = <<"tcw_entry">>

\* ConfigConnectionManager(configs).wait_for_connection()
InitWait ==
    /\ scenario = "wait"
    /\ foreign = FALSE
    \* a list that begins with the VMESS entry behaves as its mirror image that begins
    \* with the VLESS entry of the same latency
    /\ configs \in {l \in RankedLists : l = <<>> \/ l[1].cfg # CfgVmess}
    /\ win32 = FALSE /\ HAS_SOCKS = TRUE
    /\ xray_path = "xray"
    /\ maxAttempts = 0
    /\ stack = <<"wf_pass">>

\* main after the probing phase, with results to send (lines 1273, 1399): the bot of
\* the command line was built with the detected system proxy (lines 1249-1253).
InitNotify ==
    /\ scenario = "notify"
    /\ foreign = FALSE
    \* max_attempts=1 (line 1298): only results[0] is tried, a config that starts or one
    \* that start_proxy rejects
    /\ configs \in {l \in RankedLists : Len(l) = 1 /\ l[1].cfg \in {CfgGood, CfgNoPort}}
    /\ win32 = FALSE /\ HAS_SOCKS \in BOOLEAN
    /\ xray_path \in {"xray", "None"}
    /\ maxAttempts = 0
    /\ mode \in {"saved", "custom", "cli"}
    /\ botProxy \in (IF mode = "cli" THEN {"none", "system"} ELSE {"none"})
    /\ stack = (IF mode = "cli" THEN <<"nt_cli">> ELSE <<"nt_loop">>)

\* The other entry points do not send.
InitNoSend == mode = "none" /\ botProxy = "none"

\* smart_decode applied to a fetched body.
InitDecode ==
    /\ scenario = "decode"
    /\ foreign = FALSE
    /\ configs = <<>>
    /\ win32 = FALSE /\ HAS_SOCKS = TRUE
    /\ xray_path = "None"
    /\ maxAttempts = 0
    /\ content \in Contents
    /\ sdInput = content
    /\ sdRun = 1
    /\ stack = <<"sd_entry">>

InitNoDecode == content = Utf8Encode(<<>>) /\ sdInput = content /\ sdRun = 0

\* remove_duplicates applied to a list of lines.
InitDedup ==
    /\ scenario = "dedup"
    /\ foreign = FALSE
    /\ configs = <<>>
    /\ win32 = FALSE /\ HAS_SOCKS = TRUE
    /\ xray_path = "None"
    /\ maxAttempts = 0
    /\ rdConfigs \in LineLists
    /\ stack = <<"rd_entry">>

InitNoDedup == rdConfigs = <<>>

\* sort_by_latency applied to a list of probe results.
InitSort ==
    /\ scenario = "sort"
    /\ foreign = FALSE
    /\ configs = <<>>
    /\ win32 = FALSE /\ HAS_SOCKS = TRUE
    /\ xray_path = "None"
    /\ maxAttempts = 0
    /\ srResults \in ResultLists
    /\ stack = <<"sr_entry">>

InitNoSort == srResults = <<>>

\* fetch_multiple applied to a list of URLs.
InitFetch ==
    /\ scenario = "fetch"
    /\ foreign = FALSE
    /\ configs = <<>>
    /\ win32 = FALSE /\ HAS_SOCKS = TRUE
    /\ xray_path = "None"
    /\ maxAttempts = 0
    /\ fmUrls \in UrlLists
    /\ max_workers \in 1..MaxWorkers
    /\ stack = <<"fm_entry">>

InitNoFetch == fmUrls = <<>>

InitNoPool == max_workers = 1

\* PingCoApp.run_single_ping(config)
InitSingle ==
    /\ scenario = "single"
    /\ foreign = FALSE
    /\ configs = <<>>
    /\ win32 = FALSE /\ HAS_SOCKS = TRUE
    /\ xray_path = "None"
    /\ maxAttempts = 0
    /\ pcConfig \in ExtractSamples
    /\ report \in PingReports
    /\ stack = <<"rs_entry">>

InitNoSingle == pcConfig = NoConfig /\ report = Report(1, NoAverage)

\* Configs of a deduplicated list, each with what the ping command reports for its host.
ProbeSamples ==
    {<<CfgGood, Report(0, 7)>>, <<CfgParams, Report(0, 7)>>, <<CfgVmess, Report(0, 0)>>,
     <<CfgNoAt, Report(0, 7)>>, <<CfgNoPort, Report(0, NoAverage)>>,
     <<CfgVmessNoPort, Report(1, NoAverage)>>}

ProbeLists ==
    {l \in UNION {[1..n -> ProbeSamples] : n \in 0..MaxProbes} :
        \A i, j \in DOMAIN l : i # j => l[i] # l[j]}

\* ConfigProcessor.ping_configs on a deduplicated list.
InitProbe ==
    /\ scenario = "probe"
    /\ foreign = FALSE
    /\ configs = <<>>
    /\ win32 = FALSE /\ HAS_SOCKS = TRUE
    /\ xray_path = "None"
    /\ maxAttempts = 0
    /\ \E l \in ProbeLists :
          /\ pgConfigs = [i \in DOMAIN l |-> l[i][1]]
          /\ pgReport = [i \in DOMAIN l |-> l[i][2]]
    /\ max_workers \in 1..MaxWorkers
    /\ stack = <<"pg_entry">>

\* Configs of a deduplicated list handed to _process_configs: two hosts of the same
\* ICMP latency, one of latency 0, and one whose host is not found.
ProcessSamples ==
    {<<CfgGood, Report(0, 7)>>, <<CfgParams, Report(0, 7)>>, <<CfgVmess, Report(0, 0)>>,
     <<CfgNoPort, Report(0, NoAverage)>>}

\* The probes complete in any order, so the place of a config in the list matters only
\* among configs of equal report: the lists are taken in ascending order of the report.
ProcessLists ==
    {l \in UNION {[1..n -> ProcessSamples] : n \in 0..MaxProbes} :
        \A i, j \in DOMAIN l : i < j => l[i] # l[j] /\ l[i][2].avg <= l[j][2].avg}

\* The real-ping branch of PingCoApp._process_configs on a deduplicated list, with a
\* probe pool of MaxWorkers workers, on win32 (test_config arms no deadline signal).
InitProcess ==
    /\ scenario = "process"
    /\ foreign = FALSE
    /\ configs = <<>>
    /\ win32 = TRUE /\ HAS_SOCKS = TRUE
    /\ xray_path = "xray"
    /\ maxAttempts = 0
    /\ \E l \in ProcessLists :
          /\ pgConfigs = [i \in DOMAIN l |-> l[i][1]]
          /\ pgReport = [i \in DOMAIN l |-> l[i][2]]
    /\ max_workers = MaxWorkers
    /\ stack = <<"pr_entry">>

InitNoProbe == pgConfigs = <<>> /\ pgReport = <<>>

\* A parser of connection strings applied to one string.
InitOutbound ==
    /\ scenario = "outbound"
    /\ foreign = FALSE
    /\ configs = <<>>
    /\ win32 = FALSE /\ HAS_SOCKS = TRUE
    /\ xray_path = "None"
    /\ maxAttempts = 0
    /\ poConfig \in OutboundSamples
    /\ stack = <<"po_entry">>

InitNoOutbound == poConfig = NoConfig

\* The functions of the ingestion pipeline, each applied on its own.
InitPipeline ==
    \/ InitNoDedup /\ InitNoSort /\ InitNoFetch /\ InitNoPool /\ InitNoSingle /\ InitNoProbe /\ InitNoOutbound
       /\ InitDecode
    \/ InitNoDecode /\ InitNoSort /\ InitNoFetch /\ InitNoPool /\ InitNoSingle /\ InitNoProbe /\ InitNoOutbound
       /\ InitDedup
    \/ InitNoDecode /\ InitNoDedup /\ InitNoFetch /\ InitNoPool /\ InitNoSingle /\ InitNoProbe /\ InitNoOutbound
       /\ InitSort
    \/ InitNoDecode /\ InitNoDedup /\ InitNoSort /\ InitNoSingle /\ InitNoProbe /\ InitNoOutbound /\ InitFetch
    \/ InitNoDecode /\ InitNoDedup /\ InitNoSort /\ InitNoFetch /\ InitNoPool /\ InitNoProbe /\ InitNoOutbound
       /\ InitSingle
    \/ InitNoDecode /\ InitNoDedup /\ InitNoSort /\ InitNoFetch /\ InitNoSingle /\ InitNoOutbound
       /\ InitProbe
    \/ InitNoDecode /\ InitNoDedup /\ InitNoSort /\ InitNoFetch /\ InitNoSingle /\ InitNoOutbound
       /\ InitProcess
    \/ InitNoDecode /\ InitNoDedup /\ InitNoSort /\ InitNoFetch /\ InitNoPool /\ InitNoSingle
       /\ InitNoProbe /\ InitOutbound

InitNoPipeline ==
    InitNoDecode /\ InitNoDedup /\ InitNoSort /\ InitNoFetch /\ InitNoPool /\ InitNoSingle
    /\ InitNoProbe /\ InitNoOutbound

Init ==
    /\ InitCommon
    /\ \/ InitNoSend /\ InitNoPipeline
             /\ (InitHandle \/ InitRealPing \/ InitConnect \/ InitWait)
       \/ InitNoPipeline /\ InitNotify
       \/ InitNoSend /\ InitPipeline

StartProxyStep ==
    \/ SpEntry \/ SpCreate \/ SpDump \/ SpAssign \/ SpClose \/ SpPopen \/ SpPassign
    \/ SpSleep \/ SpTest \/ TpConnect \/ TpExcept \/ SpTested \/ SpFailRet
    \/ SpExcept \/ SpExceptRet

StopProxyStep ==
    \/ StEntry \/ StKill \/ StWait \/ StPnone \/ StFchk \/ StRm \/ StFnone

TestConfigStep ==
    \/ TcEntry \/ TcArm \/ TcStart \/ TcStarted \/ TcStartFailed \/ TcSocks \/ TcNoSocks
    \/ TcSave \/ TcSet \/ TcTimer \/ TcRequest \/ TcRequestExcept \/ TcRestore \/ TcStop
    \/ TcCancel \/ TcExcept \/ TcExceptStop \/ TcExceptCancel \/ TcDel \/ TcDone
    \/ RpLoop \/ RpAfter

ConnectStep ==
    \/ TcwBegin \/ TcwLoop \/ TcwAfter
    \/ WfPass \/ WfAfter \/ WfSleep \/ WfInterrupted
    \/ DcEntry \/ DcEnd

HandleStep == HStart \/ HStarted \/ HStop \/ HStopped

MakeRequestStep ==
    MrEntry \/ MrSave \/ MrSet \/ MrRequest \/ MrRestore \/ MrExcept \/ MrExceptRet

NotifyStep ==
    \/ NtDetect \/ NtConnect \/ NtConnected \/ NtPySocks \/ NtSent \/ NtPrompt \/ NtClear
    \/ NtCli \/ NtCliSent \/ NtDone \/ NtExcept \/ NtFinally \/ NtEnd

\* A step of the program itself.
ProgramStep ==
    \/ Unwind \/ StartProxyStep \/ StopProxyStep \/ TestConfigStep \/ ConnectStep
    \/ HandleStep \/ MakeRequestStep \/ NotifyStep \/ SmartDecodeStep
    \/ RemoveDuplicatesStep \/ SortStep \/ FetchStep \/ PingStep \/ PoEntry

\* A step of the environment: signals, a sub-step that hangs, a file removed from outside.
EnvironmentStep == AlarmFire \/ Interrupt \/ Hang \/ ExternalRemove

Next == ProgramStep \/ EnvironmentStep

Spec == Init /\ [][Next]_vars

\* The interpreter keeps running the program, and a pending SIGALRM is delivered.
FairSpec == Spec /\ WF_vars(ProgramStep) /\ WF_vars(AlarmFire)

(***************************************************************************)
(* Properties.                                                             *)
(***************************************************************************)
\* Control is at label l after a call returned normally, or before l runs.
ReturnedTo(l) == exc = "none" /\ stack # <<>> /\ Top = l

\* The labels at which callers resume when start_proxy returns.
StartReturnLabels == {"h_started", "tc_started", "tcw_after"}

LastOp == IF hist = <<>> THEN "" ELSE hist[Len(hist)]

\* C1: after start_proxy(config) followed by stop_proxy(), whatever start_proxy
\* returned, the process that start spawned is not running and the temporary
\* file it created does not exist.
C1_StartThenStopLeavesNothing ==
    (scenario = "handle" /\ ReturnedTo("h_stopped") /\ LastOp = "start")
        => (lastSpawned \notin alive /\ lastCreated \notin files)

\* C2: at every moment of a run at most one proxy process started by the
\* program is alive.
C2_AtMostOneProxyAlive == Cardinality(alive) <= 1

\* C3: whenever start_proxy returns False, the process it spawned (if any) has
\* been killed and the temporary file it created (if any) has been deleted.
C3_FailedStartTearsDown ==
    (\E l \in StartReturnLabels : ReturnedTo(l)) /\ ~spRet
        => (lastSpawned \notin alive /\ lastCreated \notin files)

\* C4: start_proxy with a config that has no outbound (unknown scheme, VLESS
\* string not matching uuid@host:port, VMESS payload that is not base64 JSON
\* with a numeric port) returns False, has spawned no process and created no
\* file, and leaves the handle's process and config_file as they were.
C4_UnparsableStartRejected ==
    (\E l \in StartReturnLabels : ReturnedTo(l)) /\ ~HasOutbound(spConfig)
        => /\ ~spRet
           /\ lastSpawned = None /\ lastCreated = None
           /\ <<process, config_file, nextPid, nextFile>> = callSnap

\* C4 witness: start_proxy has returned for an unparsable config although the
\* executable was found, on a handle that still held a config_file reference.
C4_Witness ==
    /\ ReturnedTo("h_started")
    /\ ~HasOutbound(spConfig)
    /\ spConfig.scheme = "vmess://"
    /\ xray_path = "xray"
    /\ config_file # None

\* C5: stop_proxy never raises, after it returns both the process reference
\* and the config_file reference are cleared, and a second stop_proxy leaves
\* the handle as the first one left it.
C5_StopClearsAndIsIdempotent ==
    /\ (scenario = "handle" /\ exc # "none" /\ stack # <<>>) => Top \in SpTryLabels
    /\ ReturnedTo("h_stopped")
        => /\ process = None
           /\ config_file = None
           /\ LastOp = "stop" => <<process, config_file>> = snap

\* C6: in real_ping_configs, when start_proxy is called for a candidate, the
\* proxy started for the previous candidate has been stopped.
C6_PreviousProxyStopped ==
    (scenario = "realping" /\ ReturnedTo("sp_entry")) => alive = {}

\* C7: when the deadline fired during a test_config call, the call reports no
\* latency and, when it returns, the spawned process is not running, its
\* temporary file is removed and socket.socket is the original factory.
C7_DeadlineTeardown ==
    (ReturnedTo("rp_after") /\ alarmFired)
        => /\ tcRet = NoLatency
           /\ lastSpawned \notin alive
           /\ lastCreated \notin files
           /\ socketFactory = "orig"

\* A call of test_config is in progress.
InTestConfig == scenario = "realping" /\ Len(stack) >= 2

\* C8: every call of test_config eventually returns, also when a sub-step
\* never completes on its own, on every platform.
C8_TestConfigReturns == [](InTestConfig => <>(~InTestConfig))

\* C9: when wait_for_connection is cancelled by an interrupt, no proxy process
\* started by it is running when control leaves it.
C9_InterruptLeavesNoProxy ==
    (scenario = "wait" /\ stack = <<>> /\ (exc = "KbdInt" \/ ~connRet.found))
        => alive = {}

\* try_connect_with_configs has returned to its caller.
TcwReturned ==
    /\ exc = "none"
    /\ \/ scenario = "connect" /\ stack = <<>>
       \/ ReturnedTo("wf_after")

\* C10: try_connect_with_configs calls start_proxy on the entries in list order,
\* starting at the first, and stops at the first success: every call before the
\* last one failed; a result carries the config of the last call, its latency and
\* the local relay address; none is returned exactly when every entry of the
\* bounded list was tried and failed.
C10_FirstSuccessInOrder ==
    TcwReturned =>
        LET n == Len(startLog) IN
        /\ n <= Len(configs)
        /\ \A j \in 1..n : startLog[j][1] = configs[j].cfg
        /\ \A j \in 1..n : (j < n => ~startLog[j][2])
        /\ connRet.found <=> (n >= 1 /\ startLog[n][2])
        /\ connRet.found =>
              /\ connRet.config = configs[n].cfg
              /\ connRet.latency = configs[n].lat
              /\ connRet.host = "127.0.0.1" /\ connRet.port = SocksPort
              /\ connected_config = configs[n].cfg
        /\ ~connRet.found => n = tcwN

\* C10 witness: the second entry connected after the first one failed.
C10_Witness ==
    /\ scenario = "connect" /\ stack = <<>> /\ exc = "none"
    /\ connRet.found
    /\ Len(startLog) = 2
    /\ ~startLog[1][2]

\* wait_for_connection has returned to its caller (it did not raise).
WfReturned == scenario = "wait" /\ stack = <<>> /\ exc = "none"

\* C11: wait_for_connection makes full passes over the list and returns only
\* with the result of the pass that just succeeded (every earlier pass having
\* failed), or with none from the handler of an interrupt that arrived during
\* the inter-pass delay; it never returns none without that interrupt.
C11_WaitReturnsOnSuccessOrInterrupt ==
    [][/\ (scenario = "wait" /\ stack # <<>> /\ Top = "tcw_loop")
            => tcwN = Len(configs)
       /\ (scenario = "wait" /\ stack # <<>> /\ stack' = <<>> /\ exc' = "none")
            => \/ /\ Top = "wf_after" /\ connRet.found /\ connRet' = connRet
                  /\ startLog # <<>> /\ startLog[Len(startLog)][2]
               \/ Top = "wf_interrupted" /\ ~connRet'.found
       /\ (stack # <<>> /\ stack' # <<>> /\ Top # "wf_interrupted"
           /\ stack'[Len(stack')] = "wf_interrupted")
            => (Top = "wf_sleep" /\ exc = "KbdInt")
       /\ (scenario = "wait" /\ stack # <<>> /\ Top = "wf_after" /\ exc = "none"
           /\ ~connRet.found /\ stack' # stack)
            => stack' = <<"wf_sleep">>]_vars

\* C11 witness: the first pass failed and an interrupt during the delay made
\* wait_for_connection return none.
C11_Witness ==
    /\ WfReturned /\ ~connRet.found
    /\ passes = 1 /\ interrupts = 1
    /\ Len(startLog) >= 1

\* The labels of _make_request's frame.
MrLabels == MrTryLabels \cup {"mr_except", "mr_ex_ret"}

\* C12: whenever _make_request is left, by a return or by an exception that
\* leaves its frame, socket.socket is what it was when _make_request was entered.
C12_MakeRequestRestoresFactory ==
    [][(stack # <<>> /\ Top \in MrLabels /\ Len(stack') < Len(stack))
          => socketFactory' = mrEntryFactory]_vars

\* C13: a run that printed its completion line has shown the prompt after
\* every failed send, and if its latest send failed the operator chose to abort.
C13_FailedSendPrompted ==
    completed => (~unprompted /\ (sendFailed => aborted))

\* main has finished, normally or with an exception leaving it.
MainFinished == scenario = "notify" /\ stack = <<>>

\* C14: when main has finished, no proxy process started during the
\* notification phase is running and socket.socket is the original factory.
C14_MainLeavesNothing ==
    MainFinished => (alive = {} /\ socketFactory = "orig")

\* The labels at which a network call is made through socket.socket: the port
\* check of _test_proxy, the test request, the port checks of
\* detect_system_proxy and the request of _make_request.
NetworkLabels == {"tp_connect", "tc_req", "nt_loop", "mr_req"}

\* C15: each time test_config or _make_request has saved the `original'
\* factory, the saved value is the unsubstituted one; and while the SOCKS
\* factory is installed the only network call that runs is the request of the
\* call that installed it.
C15_OneSubstitutionAtATime ==
    /\ (stack # <<>> /\ Top \in {"tc_set", "mr_set"}) => original_socket = "orig"
    /\ (socketFactory = "socks" /\ stack # <<>> /\ exc = "none" /\ Top \in NetworkLabels)
          => /\ Top \in {"tc_req", "mr_req"}
             /\ original_socket = "orig"

\* smart_decode returned to the caller of the run.
SdReturned == scenario = "decode" /\ stack = <<>> /\ exc = "none"

\* C16: smart_decode terminates and decodes at most 5 base64 layers, however many times
\* the input was wrapped: the loop counter and the number of b64decode calls never
\* exceed 5, and every evaluation of the loop either leaves the loop or raises the
\* counter by one, so the loop is left after at most 5 repetitions.
C16_DecodeBounded ==
    /\ [](iteration <= 5 /\ decodes <= 5)
    /\ [][(stack # <<>> /\ Top = "sd_while" /\ exc = "none" /\ ~hung)
              => \/ stack' = <<"sd_return">>
                 \/ stack' = stack /\ iteration' = iteration + 1 /\ decodes' = decodes + 1]_vars

C16_Witness ==
    /\ SdReturned
    /\ sdRun = 1
    /\ Len(content.str) = MaxWraps + 1
    /\ decodes = 5
    /\ is_base64(sdRet)

\* A plain text: the empty string, or a string that is not the base64 encoding of a text.
PlainText(t) == Len(t) <= 1

\* C17: decoding a plain-text input is idempotent: when smart_decode is applied to the
\* UTF-8 encoding of what smart_decode returned for a plain-text input, it returns
\* that same text.
C17_DecodeIdempotent ==
    (SdReturned /\ sdRun = 2 /\ PlainText(sdInput.str)) => sdRet = sdFirst

C17_Witness ==
    /\ SdReturned /\ sdRun = 2
    /\ PlainText(sdInput.str) /\ sdInput.str # <<>>
    /\ sdInput.str[1].ws
    /\ sdFirst = Strip(sdInput.str)
    /\ sdRet = sdFirst

RdReturned == scenario = "dedup" /\ stack = <<>> /\ exc = "none"

\* The normalized lines of the input that carry a valid scheme.
RdValid == {i \in DOMAIN rdConfigs : is_valid_config(normalize_config(rdConfigs[i]))}

\* Position in the input of the first line whose normalized form is x.
RdFirst(x) ==
    CHOOSE i \in RdValid :
        /\ normalize_config(rdConfigs[i]) = x
        /\ \A j \in RdValid : normalize_config(rdConfigs[j]) = x => i <= j

\* C18: remove_duplicates returns a list without two equal strings, whose elements are
\* exactly the distinct normalized valid-scheme lines of the input, in the order of
\* their first occurrence, and that is never longer than the input.
C18_DedupFirstSeenOrder ==
    RdReturned =>
        /\ \A i, j \in DOMAIN rdRet : i # j => rdRet[i] # rdRet[j]
        /\ {rdRet[i] : i \in DOMAIN rdRet} = {normalize_config(rdConfigs[i]) : i \in RdValid}
        /\ \A i, j \in DOMAIN rdRet : i < j => RdFirst(rdRet[i]) < RdFirst(rdRet[j])
        /\ Len(rdRet) <= Len(rdConfigs)

C18_Witness ==
    /\ RdReturned
    /\ Len(rdConfigs) = 3
    /\ rdConfigs[1] = rdConfigs[3]
    /\ rdConfigs[1] = Line(FALSE, "vless://", "a")
    /\ rdConfigs[2] = Line(TRUE, "vmess://", "c")
    /\ rdRet = <<Line(FALSE, "vless://", "a"), Line(FALSE, "vmess://", "c")>>

SrReturned == scenario = "sort" /\ stack = <<>> /\ exc = "none"

\* C19: sort_by_latency returns a permutation of its input that is non-decreasing in
\* latency and stable: entries of equal latency keep their relative input order.
C19_SortStable ==
    SrReturned =>
        /\ Len(srOrder) = Len(srResults)
        /\ {srOrder[i] : i \in DOMAIN srOrder} = DOMAIN srResults
        /\ Len(srRet) = Len(srResults)
        /\ \A i \in DOMAIN srRet : srRet[i] = srResults[srOrder[i]]
        /\ \A i, j \in DOMAIN srRet : i < j => SortKey(srRet[i]) <= SortKey(srRet[j])
        /\ \A i, j \in DOMAIN srRet :
              (i < j /\ SortKey(srRet[i]) = SortKey(srRet[j])) => srOrder[i] < srOrder[j]

C19_Witness ==
    /\ SrReturned
    /\ srResults = <<<<"A", 502>>, <<"B", 101>>, <<"C", 101>>>>
    /\ srRet = <<<<"B", 101>>, <<"C", 101>>, <<"A", 502>>>>

FmReturned == scenario = "fetch" /\ stack = <<>> /\ exc = "none"

\* Number of occurrences of x in the sequence s.
Count(x, s) == Cardinality({i \in DOMAIN s : s[i] = x})

\* The non-empty stripped lines of the decoded body of URL u; none when its fetch fails.
FmLinesOf(u) ==
    IF fmUrls[u].ok
    THEN StrippedNonEmpty(SplitLines(smart_decode(fmUrls[u].body)))
    ELSE <<>>

\* Occurrences of x among the lines of the URLs 1..n.
RECURSIVE FmExpected(_, _)
FmExpected(x, n) == IF n = 0 THEN 0 ELSE Count(x, FmLinesOf(n)) + FmExpected(x, n - 1)

\* C20: whatever the order in which the worker tasks complete, fetch_multiple returns,
\* as a multiset, exactly the non-empty stripped lines of the decoded bodies of the
\* URLs whose fetch succeeded; a URL whose fetch fails adds nothing and takes nothing
\* away from the others.
C20_FetchUnion ==
    FmReturned =>
        /\ \A i \in DOMAIN fmRet : FmExpected(fmRet[i], Len(fmUrls)) > 0
        /\ \A u \in DOMAIN fmUrls : \A i \in DOMAIN FmLinesOf(u) :
              Count(FmLinesOf(u)[i], fmRet) = FmExpected(FmLinesOf(u)[i], Len(fmUrls))

C20_Witness ==
    /\ FmReturned
    /\ Len(fmUrls) = 2
    /\ ~fmUrls[1].ok
    /\ fmUrls[2].ok /\ fmUrls[2].body.str = WrappedBody
    /\ fmOrder = <<2, 1>>
    /\ fmRet = <<StripLine(LineB), LineA>>

\* Labels of the frames of real_ping_configs.
RpLabels == {"rp_loop", "rp_after"}

PgReturned ==
    \/ scenario = "probe" /\ stack = <<>> /\ exc = "none"
    \/ scenario = "process" /\ ReturnedTo("pr_pinged")

\* The probe of config i produced a latency: a host is extracted, the command succeeded
\* and its report gives an average.
Responded(i) ==
    /\ extract_ip_from_config(pgConfigs[i]) # NoHost
    /\ pgReport[i].returncode = 0
    /\ pgReport[i].avg # NoAverage

\* C21: whatever the completion order, ping_configs returns exactly one (config, latency)
\* entry for each submitted config whose probe produced a latency, 0 included, with that
\* latency, and no entry for a config with no response, an unreadable report or no
\* extractable host.
C21_OneEntryPerResponse ==
    PgReturned =>
        /\ \A i \in DOMAIN pgConfigs :
              LET mine == {k \in DOMAIN icmp_results : icmp_results[k][1] = pgConfigs[i]}
              IN  IF Responded(i)
                  THEN /\ Cardinality(mine) = 1
                       /\ \A k \in mine : icmp_results[k][2] = pgReport[i].avg
                  ELSE mine = {}
        /\ Len(icmp_results) = Cardinality({i \in DOMAIN pgConfigs : Responded(i)})

\* Two configs answered, the second of the list first and with a latency of 0.
C21_Witness ==
    /\ PgReturned
    /\ Len(pgConfigs) = 2
    /\ icmp_results = <<<<pgConfigs[2], 0>>, <<pgConfigs[1], 7>>>>

\* The first stage of _process_configs has ended with a selection.
PrSelected == scenario = "process" /\ top_configs # <<>>

\* The results of the first n configs, in the order of the list.
RECURSIVE InOrderResults(_)
InOrderResults(n) ==
    IF n = 0 THEN <<>>
    ELSE InOrderResults(n - 1)
         \o (IF Responded(n) THEN <<<<pgConfigs[n], pgReport[n].avg>>>> ELSE <<>>)

\* s in ascending order of latency, entries of equal latency in the order of s.
RECURSIVE StableSorted(_)
StableSorted(s) ==
    IF s = <<>> THEN <<>>
    ELSE LET rest == StableSorted(SubSeq(s, 1, Len(s) - 1))
             x == s[Len(s)]
             p == Cardinality({j \in DOMAIN rest : rest[j][2] <= x[2]})
         IN  SubSeq(rest, 1, p) \o <<x>> \o SubSeq(rest, p + 1, Len(rest))

\* The configs selected when the probes complete in the order of the list.
ReferenceTop ==
    LET ranked == StableSorted(InOrderResults(Len(pgConfigs)))
    IN  {ranked[i][1] : i \in 1..Min(TopCount, Len(ranked))}

\* C24: for a fixed mapping of configs to ICMP latencies the set of configs selected for
\* real probing is the same for every completion order of the probes, ties at the cut-off
\* included: it is the set selected when the probes complete in the order of the list.
C24_TopSelectionReproducible ==
    PrSelected => {top_configs[i] : i \in DOMAIN top_configs} = ReferenceTop

\* The number of fetch tasks and of probe tasks that run at this moment.
FmRunning == Cardinality({u \in DOMAIN fmTask : fmTask[u] = "running"})

\* C25: the tasks of a pool that execute at the same time never exceed its width, for the
\* fetch pool (10 at line 1045) and for the ICMP probe pool (50 at line 1044), however many
\* URLs or configs are submitted.
C25_PoolWidthRespected ==
    /\ scenario = "fetch" => FmRunning <= max_workers
    /\ scenario \in {"probe", "process"} => PgRunning <= max_workers

\* A probe pool of one worker is busy while another config waits for it.
C25_Witness ==
    /\ scenario = "probe"
    /\ max_workers = 1
    /\ PgRunning = 1
    /\ \E i \in DOMAIN pgTask : pgTask[i] = "queued"

\* run_single_ping has returned.
RsReturned == scenario = "single" /\ stack = <<>>

\* C28: a probe that yields a latency is reported as a response for every non-negative
\* latency, 0 included: run_single_ping prints "no response" only when ping_config gave no
\* latency, and ping_configs keeps every result that has one.
C28_ZeroLatencyIsAResponse ==
    /\ RsReturned => (printed = "timeout" <=> latency = NoLatency)
    /\ PgReturned =>
          \A i \in DOMAIN pgConfigs :
              pgFuture[i] # NoLatency =>
                  \E k \in DOMAIN icmp_results : icmp_results[k] = <<pgConfigs[i], pgFuture[i]>>

\* The host the text names: for VLESS the characters between '@' and the ':' that ends the
\* authority, none when the authority has no ':' before its path, query or fragment; for
\* VMESS the value of "add" of the JSON object the payload decodes to.
DeclaredHost(config) ==
    IF config.scheme = "vless://"
    THEN LET at == FirstIn(config.body, 1, {"@"})
             stop == IF at = 0 THEN 0 ELSE FirstIn(config.body, at + 1, {":", "/", "?", "#"})
         IN  IF stop > at + 1 /\ config.body[stop] = ":"
             THEN SubSeq(config.body, at + 1, stop - 1)
             ELSE NoHost
    ELSE IF config.scheme = "vmess://"
    THEN IF config.payload.b64 /\ config.payload.json = "object" /\ config.payload.add = "text"
         THEN AddValue
         ELSE NoHost
    ELSE NoHost

\* C27: extract_ip_from_config returns the authority segment between '@' and the port
\* separator of a vless:// string and the "add" field of the decoded JSON payload of a
\* vmess:// string, and none, without raising, for any other or malformed input.
C27_ExtractsDeclaredHost ==
    (scenario = "single" /\ stack # <<>> /\ Top = "rs_print")
        => ip = DeclaredHost(pcConfig)

\* The characters after the prefix in the lines given to remove_duplicates: "a" names a
\* host and a port, "b" has no '@', "c" is a payload that decodes to JSON with "add".
LineChars(rest) ==
    IF rest = "a" THEN <<"u", "@", "h", ":", "4">>
    ELSE IF rest = "b" THEN <<"u", "h">>
    ELSE <<>>

\* The line as the string handed to extract_ip_from_config.
LineConfig(l) ==
    IF l.scheme = "vmess://"
    THEN IF l.rest = "c" THEN CfgVmess ELSE CfgVmessBadB64
    ELSE [scheme |-> l.scheme, body |-> LineChars(l.rest), payload |-> NoPayload]

\* C22: a line from which no host can be extracted is discarded by parsing and
\* deduplication: the list remove_duplicates returns, which is persisted and probed,
\* holds only lines from which extract_ip_from_config extracts a host.
C22_NoHostLineDiscarded ==
    RdReturned =>
        \A i \in DOMAIN rdRet : extract_ip_from_config(LineConfig(rdRet[i])) # NoHost

\* C29: start_proxy returns True only if the process it spawned is alive and is the one
\* that accepts connections on the relay port: not when another listener serves the port
\* and its own process failed to bind.
C29_SuccessMeansOwnListener ==
    (scenario = "handle" /\ ReturnedTo("h_started") /\ spRet)
        => (lastSpawned \in alive /\ ~foreign)

\* The query of a VLESS string: the characters after the port and '?', up to the '#' that
\* starts the remark.
DeclaredQuery(c) ==
    LET p == VlessMatch(c.body).params
        hash == FirstIn(p, 1, {"#"})
    IN  IF hash = 0 THEN p ELSE SubSeq(p, 1, hash - 1)

\* The options the config declares: transport, security, and the values that go with them.
Declared(c) ==
    IF c.scheme = "vless://"
    THEN LET d == ParamList(DeclaredQuery(c))
             address == VlessMatch(c.body).address
         IN  [type |-> ParamGet(d, "type", <<"tcp">>),
              security |-> ParamGet(d, "security", <<"none">>),
              path |-> ParamGet(d, "path", <<"/">>),
              host |-> ParamGet(d, "host", address),
              sni |-> ParamGet(d, "sni", address),
              serviceName |-> ParamGet(d, "serviceName", <<>>)]
    ELSE [type |-> <<c.payload.net>>, security |-> <<c.payload.tls>>,
          path |-> <<"/">>, host |-> VmessAdd(c.payload), sni |-> VmessAdd(c.payload),
          serviceName |-> <<>>]

PoReturned == scenario = "outbound" /\ stack = <<>>

\* C26: for VLESS and VMESS the outbound built from a config carries the options the
\* config declares: transport ws gives the websocket path and Host header, transport grpc
\* gives the gRPC service name, security tls gives the TLS server name (the address when
\* none is declared).
C26_OutboundCarriesDeclaredOptions ==
    (PoReturned /\ outbound.ok) =>
        LET d == Declared(poConfig)
        IN  /\ d.type = <<"ws">> =>
                  (outbound.hasWs /\ outbound.path = d.path /\ outbound.Host = d.host)
            /\ d.type = <<"grpc">> =>
                  (outbound.hasGrpc /\ outbound.serviceName = d.serviceName)
            /\ d.security = <<"tls">> =>
                  (outbound.hasTls /\ outbound.serverName = d.sni)

\* The string without its remark: the characters before the first '#'.
WithoutRemark(c) ==
    LET hash == FirstIn(c.body, 1, {"#"})
    IN  IF hash = 0 THEN c ELSE [c EXCEPT !.body = SubSeq(c.body, 1, hash - 1)]

\* C37: the outbound built from a VLESS string does not depend on its '#remark': it is the
\* outbound of the string without the remark, and no value of it contains the '#'.
C37_OutboundIgnoresRemark ==
    (PoReturned /\ poConfig.scheme = "vless://") =>
        /\ outbound = parse_vless_config(WithoutRemark(poConfig))
        /\ \A v \in {outbound.network, outbound.security, outbound.path, outbound.Host,
                     outbound.serverName, outbound.serviceName} :
              FirstIn(v, 1, {"#"}) = 0

\* C35: when a decoding layer is attempted (b64decode is called) but raises, or gives an
\* empty result or the text itself (the loop counter is not raised), the text that
\* smart_decode goes on to return is the text as it was before that attempt.
C35_FailedLayerLeavesText ==
    [][(stack # <<>> /\ Top = "sd_while" /\ exc = "none"
          /\ decodes' = decodes + 1 /\ iteration' = iteration)
        => text' = text]_vars

\* The input of the run is a config list under k base64 layers, each layer matching
\* the heuristic of is_base64.
Wraps(k) ==
    LET t == sdInput.str
    IN  /\ ~sdInput.bad
        /\ Len(t) = k + 1
        /\ t[k + 1].scheme /\ ~t[k + 1].alnum
        /\ \A i \in 1..k : is_base64(SubSeq(t, i, Len(t)))

\* The input of the run with its n outermost layers removed.
Unwrapped(n) == SubSeq(sdInput.str, n + 1, Len(sdInput.str))

\* C36: for a config list under k base64 layers, 1 <= k <= 5, smart_decode returns the
\* innermost plain text without its leading and trailing whitespace; for k > 5 it
\* returns the text with exactly 5 layers removed, without its leading and trailing
\* whitespace.
C36_NestedLayersRemoved ==
    (SdReturned /\ sdRun = 1) =>
        \A k \in 1..MaxWraps :
            Wraps(k) => sdRet = Strip(Unwrapped(IF k <= 5 THEN k ELSE 5))

C36_Witness ==
    /\ SdReturned /\ sdRun = 1
    /\ Wraps(MaxWraps)
    /\ sdInput.str[2].ws
    /\ sdRet = Strip(Unwrapped(5))
    /\ is_base64(sdRet)

\* C36 as stated: the returned text is the innermost plain text (the text under 5
\* layers for k > 5) character for character.
C36_AsStated ==
    (SdReturned /\ sdRun = 1) =>
        \A k \in 1..MaxWraps :
            Wraps(k) => sdRet = Unwrapped(IF k <= 5 THEN k ELSE 5)

\* C31: for every integer max_attempts, negative values and 0 included, and every list,
\* try_connect_with_configs calls start_proxy at most max(0, max_attempts) times and at
\* most once per list entry (tcwI counts the calls, each on the next entry of the list).
C31_AttemptsBounded ==
    scenario = "connect" =>
        /\ tcwI <= (IF maxAttempts > 0 THEN maxAttempts ELSE 0)
        /\ tcwI <= Len(configs)

\* disconnect() has returned to the caller of try_connect_with_configs.
DcReturned == scenario = "connect" /\ exc = "none" /\ stack = <<"dc_done">>

\* C32: after try_connect_with_configs returns: with none, no proxy process of the
\* manager is running and no temp file remains; with a result, exactly one proxy process
\* is running, it is the one started for the returned config, and connected_config is
\* that config; after disconnect() no process is running and connected_config is cleared.
C32_ConnectLeavesOneProxyOrNone ==
    /\ (scenario = "connect" /\ TcwReturned /\ ~connRet.found)
          => (alive = {} /\ files = {} /\ process = None)
    /\ (scenario = "connect" /\ TcwReturned /\ connRet.found)
          => /\ Cardinality(alive) = 1
             /\ alive = {process}
             /\ process = lastSpawned
             /\ spConfig = connRet.config
             /\ connected_config = connRet.config
    /\ DcReturned => (alive = {} /\ process = None /\ connected_config = NoConfig)

\* A start of the current pass of wait_for_connection has just returned True.
WfStartSucceeded ==
    /\ scenario = "wait" /\ interrupts = 0
    /\ ReturnedTo("tcw_after") /\ spRet

\* wait_for_connection returned the result of the config that is the first of the
\* pass, in rank order, whose start succeeded.
WfReturnedFirstSuccess ==
    /\ WfReturned /\ connRet.found
    /\ startLog # <<>>
    /\ \A j \in 1..Len(startLog) : startLog[j][2] <=> j = Len(startLog)
    /\ connRet.config = configs[Len(startLog)].cfg
    /\ connRet.config = spConfig

\* C38: under fairness and without cancellation (no Ctrl+C), a pass that ended without a
\* result is followed by another pass, and once start_proxy succeeds for a config in a
\* pass, wait_for_connection eventually returns a result whose config is the first one
\* in rank order whose start succeeded in that pass.
C38_WaitEventuallyConnects ==
    /\ WfStartSucceeded ~> (WfReturnedFirstSuccess \/ interrupts > 0)
    /\ (scenario = "wait" /\ ReturnedTo("wf_after") /\ ~connRet.found /\ passes < MaxPasses)
          ~> ((ReturnedTo("tcw_loop") /\ passes > 1) \/ interrupts > 0)

\* C38 witness: without an interrupt, the first pass failed for both entries and the
\* second pass returned the second entry after the start of the first one failed.
C38_Witness ==
    /\ WfReturnedFirstSuccess
    /\ interrupts = 0 /\ passes = 2
    /\ Len(startLog) = 2

\* C33: in the notification retry loop, the connection of the failed attempt is
\* disconnected before the detection and the connection attempt of the next iteration:
\* whenever an iteration begins (main is at the detection of line 1290), no proxy
\* process of the program is running.
C33_RetryStartsDisconnected ==
    (scenario = "notify" /\ stack # <<>> /\ Top = "nt_loop") => alive = {}

\* _process_configs has returned to its caller.
PrReturned == scenario = "process" /\ stack = <<>> /\ exc = "none"

\* The configs at the first TopCount places of the stage-1 ranking, the ICMP results in
\* ascending latency.
RankedTop ==
    LET ranked == StableSorted(icmp_results)
    IN  {ranked[k][1] : k \in 1..Min(TopCount, Len(ranked))}

\* C34: in real-ping mode every config of the returned list, which is also the list
\* written to the results file, responded to the ICMP probe and was among the 50
\* (here TopCount) lowest-latency entries of the stage-1 ranking; the list is in ascending
\* real-probe latency; and no proxy process is ever started when no config responded to
\* the ICMP probe.
C34_RealPingResultsFromTop ==
    /\ PrReturned =>
          /\ prRet # <<>> => realping_file = prRet
          /\ \A i \in DOMAIN prRet :
                /\ \E j \in DOMAIN pgConfigs : pgConfigs[j] = prRet[i][1] /\ Responded(j)
                /\ prRet[i][1] \in RankedTop
          /\ \A i, j \in DOMAIN prRet : i < j => prRet[i][2] <= prRet[j][2]
    /\ (scenario = "process" /\ \A j \in DOMAIN pgConfigs : ~Responded(j))
          => (nextPid = 1 /\ alive = {} /\ rpI = 0)

\* C34 witness: two configs responded to ICMP, the one of lower latency was selected,
\* passed the real probe and is the returned and written result.
C34_Witness ==
    /\ PrReturned
    /\ Len(icmp_results) = 2
    /\ Len(prRet) = 1 /\ realping_file = prRet
    /\ prRet[1][1] = CfgVmess /\ prRet[1][2] \in ElapsedValues
    /\ nextPid > 1

=============================================================================
